---------------------------- MODULE Spec2Model ----------------------------
(***************************************************************************)
(* A model of first-officer, the Anthropic <-> Copilot translating proxy.  *)
(*                                                                         *)
(* Each part of the program is modelled with a specification of its own   *)
(* over the shared variable list (the parts do not interact in the         *)
(* properties checked here, and the others stay idle):                     *)
(*   SpecThinking    translate/thinking.rs  ThinkingStreamParser           *)
(*   SpecStream      translate/stream.rs    translate_chunk, driven by     *)
(*                   routes/messages.rs     handle_streaming               *)
(*   SpecToolStream  translate/stream.rs    one tool call, chunk by chunk  *)
(*   SpecThinkStream translate/stream.rs    thinking tags in a stream      *)
(*   SpecSse         routes/messages.rs     extract_next_sse_data          *)
(*   SpecRead        routes/messages.rs     the streaming read loop        *)
(*   SpecToken       auth/cache.rs          TokenCache, one caller         *)
(*   SpecCache       auth/cache.rs          TokenCache, concurrent callers *)
(*   SpecAuth        auth                   token extraction               *)
(*   SpecRefresh     auth/token.rs          spawn_refresh_loop             *)
(*   SpecRename      rename.rs              ModelRenamer                   *)
(*   SpecDots        rename.rs              replace_version_dots           *)
(*   SpecRequest     translate/request.rs   translate_request              *)
(*   SpecResponse    translate/response.rs  translate_response             *)
(*   SpecModels      routes/models.rs       get_models and its cache       *)
(*   SpecSkip        translate/stream.rs    chunks and unparsable payloads *)
(*   SpecParse       translate/thinking.rs  parse_thinking_blocks          *)
(*   SpecLocks       auth/cache.rs, routes  locks and upstream calls       *)
(*   SpecLearned     rename.rs              register against resolve       *)
(*   SpecEvict       auth/token.rs          the evict task                 *)
(***************************************************************************)
EXTENDS Integers, Sequences, FiniteSets, TLC

VARIABLES
    \* ---- ThinkingStreamParser (translate/thinking.rs) ----
    input,          \* the text the upstream will deliver, as characters
    pushed,         \* how many characters of input have been pushed
    buffer,         \* ThinkingStreamParser.buffer
    in_thinking,    \* ThinkingStreamParser.in_thinking
    th_out,         \* every event returned so far, adjacent deltas of a kind joined
    th_pc,          \* "pushing" | "finished" | "panicked"
    split_seen,     \* a push ended inside a tag of the input

    \* ---- StreamState and handle_streaming ----
    message_start_sent,
    content_block_index,
    content_block_open,
    tool_calls,         \* upstream tool index -> anthropic_block_index
    thinking_parser,    \* "None" | "Some": StreamState.thinking_parser
    hs_pc,              \* "reading" | "closed": position in handle_streaming
    last_events,        \* the SSE events yielded to the client by the last step
    open_blocks,        \* indexes of the blocks started and not stopped, as sent
    last_start,         \* index of the last content_block_start sent
    first_event,        \* type of the first event sent, "none" before
    n_message_start,    \* message_start events sent
    n_message_stop,     \* message_stop events sent
    choice_seen,        \* a chunk with a non-empty choices list was translated

    \* ---- SSE framing (routes/messages.rs) ----
    sse_stream,     \* the upstream byte stream
    sse_fed,        \* bytes appended to the buffer so far
    sse_buffer,     \* handle_streaming's buffer
    sse_data,       \* data strings extracted so far

    \* ---- TokenCache (auth/cache.rs) ----
    now,            \* SystemTime::now() in seconds
    entries,        \* TokenCache.entries: credential -> CachedToken or NoEntry
    issued,         \* how many tokens the upstream has issued
    tc_pc,          \* per caller: position in get_copilot_token
    tc_resp,        \* per caller: the exchange response held
    tc_ret,         \* per caller: what the call returned, and when

    \* ---- ModelRenamer (rename.rs) and the model of a request ----
    auto_enabled,       \* ModelRenamer.auto_enabled
    custom_forward,     \* ModelRenamer.custom_forward: upstream -> display
    custom_reverse,     \* ModelRenamer.custom_reverse: display -> upstream
    learned_reverse,    \* ModelRenamer.learned_reverse: display -> upstream
    rn_last,            \* the upstream ID registered last, <<>> before
    req_model,          \* the model of the last /v1/messages request made since
                        \* the last registration, <<>> when there is none
    resolved_model,     \* post_messages' resolved_model for it
    sent_model,         \* the model sent upstream for it

    \* ---- RequestTranslator (translate/request.rs) ----
    rq_system,      \* MessagesRequest.system is Some
    rq_messages,    \* MessagesRequest.messages
    rq_out,         \* ChatCompletionsRequest.messages, each with the turn it is from
    rq_pc,          \* "received" | "translated"

    \* ---- Credential (auth/extract.rs, auth/resolve.rs) ----
    headers,                 \* the request's x-api-key, authorization and api-key headers
    default_github_token,    \* AppState.default_github_token
    ex_ret,                  \* what extract_gh_token returned
    rs_gh_token,             \* the credential passed to get_copilot_token
    rs_exchanges,            \* the token exchanges made for the request
    rs_ret,                  \* what resolve_copilot_token returned
    rs_pc,                   \* "received" | "exchanging" | "done"

    \* ---- Refresh loop (auth/token.rs) ----
    rf_pc,            \* "initial_sleep" | "refresh" | "sleep"
    rf_sleep_secs,    \* the duration of the sleep the task is in
    rf_slept,         \* the seconds of it that have passed
    rf_last,          \* the result of the last refresh call: "none" | "Ok" | "Err"
    rf_failures,      \* the refresh calls that failed since the last success
    rf_entry,         \* refresh_in of the response cached last, <<>> for none

    \* ---- ResponseTranslator (translate/response.rs) ----
    rp_resp,    \* the ChatCompletionResponse: its choices and usage
    rp_out,     \* the MessagesResponse made of it
    rp_pc,      \* "received" | "translated"

    \* ---- Read loop of handle_streaming (routes/messages.rs) ----
    rd_upstream,      \* the network chunks still to come, each the payloads it completes
    rd_buffer,        \* the payloads complete in the buffer and not extracted yet
    rd_translated,    \* the payloads handed to translate_chunk, in order
    rd_done,          \* "[DONE]" has been extracted
    rd_after_done,    \* the payloads handed to translate_chunk after that
    rd_pc,            \* "reading" | "flushed"

    \* ---- Stream translator with thinking emulation (spec 4.6, 4.7) ----
    ts_index,    \* StreamState.content_block_index
    ts_open,     \* the kind of the block that is open: "none" | "text" | "thinking"
    ts_log,      \* the block events sent by translate_chunk, deltas of a block joined
    ts_flush,    \* the event sent by the flush after the read loop, <<>> for none
    ts_pc,       \* "reading" | "panicked" | "closed"

    \* ---- Model list cache and get_models (state.rs, routes/models.rs) ----
    md_clock,      \* SystemTime::now(), in seconds
    models,        \* state.models: Option<CachedModels>, <<>> or <<[response, cached_at]>>
    md_renamer,    \* state.renamer: [auto_enabled, custom_forward, learned_reverse]
    md_default,    \* state.default_github_token
    md_req,        \* the request being served: what it read, got and wrote, and when
    md_calls,      \* upstream calls made for that request
    md_ret,        \* the response to it
    md_pc,         \* "idle" | "token" | "fetch" | "done"

    \* ---- replace_version_dots and auto_rename on any name (rename.rs) ----
    dt_name,       \* the string given
    dt_dashed,     \* replace_version_dots(dt_name), once computed
    dt_renamed,    \* auto_rename(dt_name), once computed: <<>> for None
    dt_done,       \* which of the two have been computed

    \* ---- A streamed tool call through translate_chunk (translate/stream.rs) ----
    tl_stream,    \* the chunks the upstream delivers, in order
    tl_read,      \* how many of them have been translated
    tl_state,     \* the StreamState of the response
    tl_sent,      \* every event sent to the client, in order
    tl_pc,        \* "reading" | "closed"

    \* ---- TokenCache with several credentials: get_copilot_token, refresh, evict_expired (auth/cache.rs) ----
    cc_now,        \* SystemTime::now() in seconds since the epoch
    cc_entries,    \* TokenCache.entries: a function on the credentials that have an entry
    cc_issued,     \* how many tokens the upstream has issued
    cc_call,       \* for each caller, the call it is in or was in last
    cc_ret,        \* for each caller, what its last call returned

    \* ---- The two tokio RwLocks, TokenCache.entries and AppState.models, and the calls that take them ----
    lk_call,            \* for each task, the call it is in and the line it has reached
    lk_readers,         \* for each lock, the tasks that hold a read guard
    lk_writer,          \* for each lock, the tasks that hold the write guard (none or one)
    lk_token_valid,     \* TokenCache.entries has a valid entry for the credential
    lk_models_valid,    \* AppState.models holds a list that is_models_cache_valid

    \* ---- ModelRenamer used by several threads: register and resolve (rename.rs) ----
    lr_renamer,    \* auto_enabled, custom_forward, custom_reverse: fixed by from_env
    lr_learned,    \* ModelRenamer.learned_reverse
    lr_writer,     \* the threads that hold the write guard of learned_reverse (none or one)
    lr_call,       \* for each thread, the call it is in
    lr_latest,     \* for each display name, the upstream name of the register call that returned last
    lr_ret,        \* what the last resolve returned and what was known when it began

    \* ---- handle_streaming fed payloads that may not parse (routes/messages.rs) ----
    sk_state,     \* the StreamState, with the events yielded for the last payload in .events
    sk_shadow,    \* the StreamState of a run that is sent the same payloads without those that do not parse
    sk_last,      \* the kind of the last payload: "none", "chunk", "unparsable"
    sk_skip,      \* the StreamState when the last payload that did not parse arrived, if any
    sk_open,      \* the kind of the block the client has open, if any
    sk_chunk,     \* what the last chunk translated carried

    \* ---- The evict task of spawn_refresh_loop (auth/token.rs) and the entries it is to remove ----
    ev_default,    \* AppState.default_github_token: <<>> for None
    ev_pc,         \* "startup" until main has called spawn_refresh_loop, then "serving"
    ev_task,       \* the evict task: "none" when it was not spawned, else "sleep"
    ev_slept,      \* the seconds the evict task has slept in its current sleep
    ev_entries,    \* TokenCache.entries, expires_at counted from the present moment (0: passed)

    \* ---- parse_thinking_blocks (translate/thinking.rs) ----
    pb_text,      \* the text given to parse_thinking_blocks
    pb_pc,        \* "ready" before the call, "parsed" after it
    pb_blocks     \* the Vec<AssistantContentBlock> the call returned

thinkVars == <<input, pushed, buffer, in_thinking, th_out, th_pc, split_seen>>
streamVars == <<message_start_sent, content_block_index, content_block_open,
                tool_calls, thinking_parser, hs_pc, choice_seen, last_events,
                open_blocks, last_start, first_event, n_message_start,
                n_message_stop>>
sseVars == <<sse_stream, sse_fed, sse_buffer, sse_data>>
tokenVars == <<now, entries, issued, tc_pc, tc_resp, tc_ret>>
renameVars == <<auto_enabled, custom_forward, custom_reverse, learned_reverse,
                rn_last, req_model, resolved_model, sent_model>>
requestVars == <<rq_system, rq_messages, rq_out, rq_pc>>
authVars == <<headers, default_github_token, ex_ret, rs_gh_token,
              rs_exchanges, rs_ret, rs_pc>>
refreshVars == <<rf_pc, rf_sleep_secs, rf_slept, rf_last, rf_failures,
                 rf_entry>>
responseVars == <<rp_resp, rp_out, rp_pc>>
readVars == <<rd_upstream, rd_buffer, rd_translated, rd_done, rd_after_done,
              rd_pc>>
thinkStreamVars == <<ts_index, ts_open, ts_log, ts_flush, ts_pc>>
modelsVars == <<md_clock, models, md_renamer, md_default, md_req, md_calls,
                md_ret, md_pc>>
dotsVars == <<dt_name, dt_dashed, dt_renamed, dt_done>>
toolStreamVars == <<tl_stream, tl_read, tl_state, tl_sent, tl_pc>>
cacheVars == <<cc_now, cc_entries, cc_issued, cc_call, cc_ret>>
lockVars == <<lk_call, lk_readers, lk_writer, lk_token_valid,
              lk_models_valid>>
learnedVars == <<lr_renamer, lr_learned, lr_writer, lr_call, lr_latest,
                 lr_ret>>
skipVars == <<sk_state, sk_shadow, sk_last, sk_skip, sk_open, sk_chunk>>
evictVars == <<ev_default, ev_pc, ev_task, ev_slept, ev_entries>>
parseVars == <<pb_text, pb_pc, pb_blocks>>
vars == <<thinkVars, streamVars, sseVars, tokenVars, renameVars, requestVars,
          authVars, refreshVars, responseVars, readVars, thinkStreamVars,
          modelsVars, dotsVars, toolStreamVars, cacheVars, lockVars,
          learnedVars, skipVars, evictVars, parseVars>>

\* What a part leaves alone: the variables of every other part.
notThink == <<streamVars, sseVars, tokenVars, renameVars, requestVars,
              authVars, refreshVars, responseVars, readVars, thinkStreamVars,
              modelsVars, dotsVars, toolStreamVars, cacheVars, lockVars,
              learnedVars, skipVars, evictVars, parseVars>>
notStream == <<thinkVars, sseVars, tokenVars, renameVars, requestVars,
               authVars, refreshVars, responseVars, readVars,
               thinkStreamVars, modelsVars, dotsVars, toolStreamVars,
               cacheVars, lockVars, learnedVars, skipVars, evictVars,
               parseVars>>
notSse == <<thinkVars, streamVars, tokenVars, renameVars, requestVars,
            authVars, refreshVars, responseVars, readVars, thinkStreamVars,
            modelsVars, dotsVars, toolStreamVars, cacheVars, lockVars,
            learnedVars, skipVars, evictVars, parseVars>>
notToken == <<thinkVars, streamVars, sseVars, renameVars, requestVars,
              authVars, refreshVars, responseVars, readVars, thinkStreamVars,
              modelsVars, dotsVars, toolStreamVars, cacheVars, lockVars,
              learnedVars, skipVars, evictVars, parseVars>>
notRename == <<thinkVars, streamVars, sseVars, tokenVars, requestVars,
               authVars, refreshVars, responseVars, readVars,
               thinkStreamVars, modelsVars, dotsVars, toolStreamVars,
               cacheVars, lockVars, learnedVars, skipVars, evictVars,
               parseVars>>
notRequest == <<thinkVars, streamVars, sseVars, tokenVars, renameVars,
                authVars, refreshVars, responseVars, readVars,
                thinkStreamVars, modelsVars, dotsVars, toolStreamVars,
                cacheVars, lockVars, learnedVars, skipVars, evictVars,
                parseVars>>
notAuth == <<thinkVars, streamVars, sseVars, tokenVars, renameVars,
             requestVars, refreshVars, responseVars, readVars,
             thinkStreamVars, modelsVars, dotsVars, toolStreamVars,
             cacheVars, lockVars, learnedVars, skipVars, evictVars,
             parseVars>>
notRefresh == <<thinkVars, streamVars, sseVars, tokenVars, renameVars,
                requestVars, authVars, responseVars, readVars,
                thinkStreamVars, modelsVars, dotsVars, toolStreamVars,
                cacheVars, lockVars, learnedVars, skipVars, evictVars,
                parseVars>>
notResponse == <<thinkVars, streamVars, sseVars, tokenVars, renameVars,
                 requestVars, authVars, refreshVars, readVars,
                 thinkStreamVars, modelsVars, dotsVars, toolStreamVars,
                 cacheVars, lockVars, learnedVars, skipVars, evictVars,
                 parseVars>>
notRead == <<thinkVars, streamVars, sseVars, tokenVars, renameVars,
             requestVars, authVars, refreshVars, responseVars,
             thinkStreamVars, modelsVars, dotsVars, toolStreamVars,
             cacheVars, lockVars, learnedVars, skipVars, evictVars,
             parseVars>>
notThinkStream == <<thinkVars, streamVars, sseVars, tokenVars, renameVars,
                    requestVars, authVars, refreshVars, responseVars,
                    readVars, modelsVars, dotsVars, toolStreamVars,
                    cacheVars, lockVars, learnedVars, skipVars, evictVars,
                    parseVars>>
notModels == <<thinkVars, streamVars, sseVars, tokenVars, renameVars,
               requestVars, authVars, refreshVars, responseVars, readVars,
               thinkStreamVars, dotsVars, toolStreamVars, cacheVars,
               lockVars, learnedVars, skipVars, evictVars, parseVars>>
notThinkNorThinkStream == <<streamVars, sseVars, tokenVars, renameVars,
                            requestVars, authVars, refreshVars, responseVars,
                            readVars, modelsVars, dotsVars, toolStreamVars,
                            cacheVars, lockVars, learnedVars, skipVars,
                            evictVars, parseVars>>
notDots == <<thinkVars, streamVars, sseVars, tokenVars, renameVars,
             requestVars, authVars, refreshVars, responseVars, readVars,
             thinkStreamVars, modelsVars, toolStreamVars, cacheVars,
             lockVars, learnedVars, skipVars, evictVars, parseVars>>
notToolStream == <<thinkVars, streamVars, sseVars, tokenVars, renameVars,
                   requestVars, authVars, refreshVars, responseVars,
                   readVars, thinkStreamVars, modelsVars, dotsVars,
                   cacheVars, lockVars, learnedVars, skipVars, evictVars,
                   parseVars>>
notCache == <<thinkVars, streamVars, sseVars, tokenVars, renameVars,
              requestVars, authVars, refreshVars, responseVars, readVars,
              thinkStreamVars, modelsVars, dotsVars, toolStreamVars,
              lockVars, learnedVars, skipVars, evictVars, parseVars>>
notLocks == <<thinkVars, streamVars, sseVars, tokenVars, renameVars,
              requestVars, authVars, refreshVars, responseVars, readVars,
              thinkStreamVars, modelsVars, dotsVars, toolStreamVars,
              cacheVars, learnedVars, skipVars, evictVars, parseVars>>
notLearned == <<thinkVars, streamVars, sseVars, tokenVars, renameVars,
                requestVars, authVars, refreshVars, responseVars, readVars,
                thinkStreamVars, modelsVars, dotsVars, toolStreamVars,
                cacheVars, lockVars, skipVars, evictVars, parseVars>>
notSkip == <<thinkVars, streamVars, sseVars, tokenVars, renameVars,
             requestVars, authVars, refreshVars, responseVars, readVars,
             thinkStreamVars, modelsVars, dotsVars, toolStreamVars,
             cacheVars, lockVars, learnedVars, evictVars, parseVars>>
notEvict == <<thinkVars, streamVars, sseVars, tokenVars, renameVars,
              requestVars, authVars, refreshVars, responseVars, readVars,
              thinkStreamVars, modelsVars, dotsVars, toolStreamVars,
              cacheVars, lockVars, learnedVars, skipVars, parseVars>>
notParse == <<thinkVars, streamVars, sseVars, tokenVars, renameVars,
              requestVars, authVars, refreshVars, responseVars, readVars,
              thinkStreamVars, modelsVars, dotsVars, toolStreamVars,
              cacheVars, lockVars, learnedVars, skipVars, evictVars>>

Min(a, b) == IF a < b THEN a ELSE b

(***************************************************************************)
(* Text.  A string is a sequence of characters; a character is a one-     *)
(* letter string, except "U2", which stands for one code point that       *)
(* takes two bytes in UTF-8.  Rust's String::len, find, drain and slicing  *)
(* count bytes.                                                            *)
(***************************************************************************)
Width(c) == IF c = "U2" THEN 2 ELSE 1

RECURSIVE ByteLen(_)
ByteLen(s) == IF s = <<>> THEN 0 ELSE Width(Head(s)) + ByteLen(Tail(s))

\* The number of leading characters of s that make up exactly n bytes, or
\* -1 when byte offset n falls inside a character (slicing there panics).
CharsAtByte(s, n) ==
    IF \E k \in 0..Len(s) : ByteLen(SubSeq(s, 1, k)) = n
    THEN CHOOSE k \in 0..Len(s) : ByteLen(SubSeq(s, 1, k)) = n
    ELSE -1

\* str::find: the position (1-based, in characters) of the first occurrence
\* of pat in s, 0 for None.
Find(s, pat) ==
    LET hits == {i \in 1..(Len(s) - Len(pat) + 1) : SubSeq(s, i, i + Len(pat) - 1) = pat}
    IN IF hits = {} THEN 0 ELSE CHOOSE i \in hits : \A j \in hits : i <= j

RECURSIVE Flatten(_)
Flatten(ss) == IF ss = <<>> THEN <<>> ELSE Head(ss) \o Flatten(Tail(ss))

SeqsUpTo(S, n) == UNION {[1..k -> S] : k \in 0..n}


(***************************************************************************)
(* ThinkingStreamParser                                                    *)
(***************************************************************************)
OPEN_TAG == <<"<", "t", "h", "i", "n", "k", "i", "n", "g", ">">>
CLOSE_TAG == <<"<", "/", "t", "h", "i", "n", "k", "i", "n", "g", ">">>

ThinkingStart == [kind |-> "ThinkingStart", text |-> <<>>]
ThinkingEnd == [kind |-> "ThinkingEnd", text |-> <<>>]
ThinkingDelta(t) == [kind |-> "ThinkingDelta", text |-> t]
TextDelta(t) == [kind |-> "TextDelta", text |-> t]

\* push's result: the parser's fields afterwards, the events returned, and
\* whether the call panicked (a slice at a byte offset inside a character).
PushResult(buf, inth, evs, panic) ==
    [buffer |-> buf, in_thinking |-> inth, events |-> evs, panicked |-> panic]

\* let reserve = "<thinking>".len().min(self.buffer.len());
OpenReserve(len) == Min(Len(OPEN_TAG), len)

\* let reserve = "</thinking>".len().min(self.buffer.len());
CloseReserve(len) == Min(Len(CLOSE_TAG), len)

\* self.buffer.drain(..idx + tag.len()), idx 1-based here
DrainThrough(buf, idx, tag) == SubSeq(buf, idx + Len(tag), Len(buf))

\* The loop of push, entered with the chunk already appended to buf.
RECURSIVE PushLoop(_, _, _)
PushLoop(buf, inth, evs) ==
    IF inth
    THEN LET end_idx == Find(buf, CLOSE_TAG)
         IN IF end_idx > 0
            THEN PushLoop(DrainThrough(buf, end_idx, CLOSE_TAG), FALSE,
                          evs \o (IF end_idx > 1
                                  THEN <<ThinkingDelta(SubSeq(buf, 1, end_idx - 1))>>
                                  ELSE <<>>)
                              \o <<ThinkingEnd>>)
            ELSE LET len == ByteLen(buf)
                     reserve == CloseReserve(len)
                     emit_len == len - reserve
                     k == CharsAtByte(buf, emit_len)
                 IN IF len > reserve
                    THEN IF k < 0
                         THEN PushResult(buf, inth, evs, TRUE)
                         ELSE PushResult(SubSeq(buf, k + 1, Len(buf)), inth,
                                         evs \o (IF k > 0
                                                 THEN <<ThinkingDelta(SubSeq(buf, 1, k))>>
                                                 ELSE <<>>),
                                         FALSE)
                    ELSE PushResult(buf, inth, evs, FALSE)
    ELSE LET start_idx == Find(buf, OPEN_TAG)
         IN IF start_idx > 0
            THEN PushLoop(DrainThrough(buf, start_idx, OPEN_TAG), TRUE,
                          evs \o (IF start_idx > 1
                                  THEN <<TextDelta(SubSeq(buf, 1, start_idx - 1))>>
                                  ELSE <<>>)
                              \o <<ThinkingStart>>)
            ELSE LET len == ByteLen(buf)
                     reserve == OpenReserve(len)
                     emit_len == len - reserve
                     k == CharsAtByte(buf, emit_len)
                 IN IF len > reserve
                    THEN IF k < 0
                         THEN PushResult(buf, inth, evs, TRUE)
                         ELSE PushResult(SubSeq(buf, k + 1, Len(buf)), inth,
                                         evs \o (IF k > 0
                                                 THEN <<TextDelta(SubSeq(buf, 1, k))>>
                                                 ELSE <<>>),
                                         FALSE)
                    ELSE PushResult(buf, inth, evs, FALSE)

\* ThinkingStreamParser::push
ParserPush(buf, inth, chunk) == PushLoop(buf \o chunk, inth, <<>>)

\* (mutant: finish returns what is left as text, inside a block too)
FinishAlwaysText(buf, inth) == IF buf # <<>> THEN <<TextDelta(buf)>> ELSE <<>>

\* ThinkingStreamParser::finish: Option<ThinkingEvent> as a sequence of 0 or 1
ParserFinish(buf, inth) ==
    IF buf # <<>>
    THEN IF inth THEN <<ThinkingDelta(buf)>> ELSE <<TextDelta(buf)>>
    ELSE <<>>

(***************************************************************************)
(* The parser driven by a caller: any input, cut into chunks anywhere.     *)
(***************************************************************************)
MaxSegs == 4
MaxChunkLen == 12

\* What inputs are built from: both tags, plain text longer than neither
\* reserve alone but longer than both when repeated, a lone "<", and a
\* two-byte character.
Segments ==
    { OPEN_TAG, CLOSE_TAG, <<"a", "b", "c", "d", "e", "f", "g">>, <<"<">>, <<"U2">> }

Inputs == {Flatten(ss) : ss \in SeqsUpTo(Segments, MaxSegs)}

IsDelta(e) == e.kind \in {"ThinkingDelta", "TextDelta"}

\* The event log with adjacent deltas of one kind joined into one.
RECURSIVE Coalesce(_, _)
Coalesce(log, evs) ==
    IF evs = <<>> THEN log
    ELSE LET e == Head(evs)
             n == Len(log)
         IN IF n > 0 /\ IsDelta(e) /\ log[n].kind = e.kind
            THEN Coalesce([log EXCEPT ![n].text = @ \o e.text], Tail(evs))
            ELSE Coalesce(Append(log, e), Tail(evs))

\* Some occurrence of a tag in the input straddles character offset p.
TagSplitAt(in, p) ==
    \E tag \in {OPEN_TAG, CLOSE_TAG} :
        \E i \in 1..Len(in) :
            /\ i + Len(tag) - 1 <= Len(in)
            /\ SubSeq(in, i, i + Len(tag) - 1) = tag
            /\ i <= p
            /\ p < i + Len(tag) - 1

ThinkInit ==
    /\ input \in Inputs
    /\ pushed = 0
    /\ buffer = <<>>
    /\ in_thinking = FALSE
    /\ th_out = <<>>
    /\ th_pc = "pushing"
    /\ split_seen = FALSE

ThinkIdle ==
    /\ input = <<>>
    /\ pushed = 0
    /\ buffer = <<>>
    /\ in_thinking = FALSE
    /\ th_out = <<>>
    /\ th_pc = "idle"
    /\ split_seen = FALSE

\* parser.push(chunk), chunk the next n characters of the input
Push(n) ==
    /\ th_pc = "pushing"
    /\ pushed + n <= Len(input)
    /\ LET r == ParserPush(buffer, in_thinking, SubSeq(input, pushed + 1, pushed + n))
       IN /\ th_pc' = IF r.panicked THEN "panicked" ELSE "pushing"
          /\ buffer' = r.buffer
          /\ in_thinking' = r.in_thinking
          /\ th_out' = IF r.panicked THEN th_out ELSE Coalesce(th_out, r.events)
    /\ pushed' = pushed + n
    /\ split_seen' = (split_seen \/ TagSplitAt(input, pushed + n))
    /\ UNCHANGED input
    /\ UNCHANGED notThink

\* parser.finish()
Finish ==
    /\ th_pc = "pushing"
    /\ th_out' = Coalesce(th_out, ParserFinish(buffer, in_thinking))
    /\ buffer' = <<>>
    /\ th_pc' = "finished"
    /\ UNCHANGED <<input, pushed, in_thinking, split_seen>>
    /\ UNCHANGED notThink

ThinkNext ==
    \/ \E n \in 1..MaxChunkLen : Push(n)
    \/ Finish


(***************************************************************************)
(* StreamTranslator: translate_chunk over a StreamState                    *)
(*                                                                         *)
(* An event is recorded by its type, the block index it carries (NoIndex  *)
(* for the message events) and its kind: the block type of a start, the   *)
(* delta type of a delta, the stop_reason of a message_delta.              *)
(***************************************************************************)
NoIndex == -1

StreamEvent(type, index, kind, payload) ==
    [type |-> type, index |-> index, kind |-> kind, payload |-> payload]

MessageStart == StreamEvent("message_start", NoIndex, "message", <<>>)
ContentBlockStart(i, k) == StreamEvent("content_block_start", i, k, <<>>)
ContentBlockDelta(i, k) == StreamEvent("content_block_delta", i, k, <<>>)
ContentBlockStop(i) == StreamEvent("content_block_stop", i, "stop", <<>>)
MessageDelta(r) == StreamEvent("message_delta", NoIndex, r, <<>>)
MessageStop == StreamEvent("message_stop", NoIndex, "stop", <<>>)

\* ContentBlockStartBody::ToolUse { id, name, input: {} }
ToolUseStart(i, id, name) ==
    StreamEvent("content_block_start", i, "tool_use", <<id, name, "{}">>)

\* ContentDelta::InputJson { partial_json }
InputJsonDelta(i, partial_json) ==
    StreamEvent("content_block_delta", i, "input_json_delta", <<partial_json>>)

\* stream.rs map_stop_reason
map_stop_reason(reason) ==
    CASE reason = "stop" -> "end_turn"
      [] reason = "length" -> "max_tokens"
      [] reason = "tool_calls" -> "tool_use"
      [] reason = "content_filter" -> "end_turn"
      [] OTHER -> "end_turn"

\* StreamState::new, with the events of one translate_chunk call collected
\* in .events
NewStreamState ==
    [message_start_sent |-> FALSE, content_block_index |-> 0,
     content_block_open |-> FALSE, tool_calls |-> <<>>, events |-> <<>>]

\* StreamState::is_tool_block_open
is_tool_block_open(st) ==
    /\ st.content_block_open
    /\ \E i \in DOMAIN st.tool_calls : st.tool_calls[i] = st.content_block_index

Emit(st, e) == [st EXCEPT !.events = Append(@, e)]

\* (mutant: message_start_sent is never set)
MessageStartNoFlag(st) == IF ~st.message_start_sent THEN Emit(st, MessageStart) ELSE st

\* if !state.message_start_sent { push MessageStart; message_start_sent = true }
MessageStartStep(st) ==
    IF ~st.message_start_sent
    THEN [Emit(st, MessageStart) EXCEPT !.message_start_sent = TRUE]
    ELSE st

\* (mutant: the index is incremented before the stop is pushed)
CloseBlockIndexFirst(st) ==
    [Emit(st, ContentBlockStop(st.content_block_index + 1))
        EXCEPT !.content_block_index = @ + 1, !.content_block_open = FALSE]

\* the close of a block before another opens: stop, index += 1, open = false
CloseBlock(st) ==
    [Emit(st, ContentBlockStop(st.content_block_index))
        EXCEPT !.content_block_index = @ + 1, !.content_block_open = FALSE]

\* if state.is_tool_block_open() { close it before starting a text block }
CloseToolBlock(st) == IF is_tool_block_open(st) THEN CloseBlock(st) ELSE st

\* (mutant: a new tool call does not close the block that is open)
CloseNothing(st) == st

\* if state.content_block_open { close any previously open block }
ClosePreviousBlock(st) == IF st.content_block_open THEN CloseBlock(st) ELSE st

\* if !state.content_block_open { push ContentBlockStart text; open = true }
OpenTextBlock(st) ==
    IF ~st.content_block_open
    THEN [Emit(st, ContentBlockStart(st.content_block_index, "text"))
            EXCEPT !.content_block_open = TRUE]
    ELSE st

\* if let Some(ref text) = delta.content { ... }
TextStep(st, delta) ==
    IF delta.content = "None"
    THEN st
    ELSE LET opened == OpenTextBlock(CloseToolBlock(st))
         IN Emit(opened, ContentBlockDelta(opened.content_block_index, "text_delta"))

\* (mutant: a tool call announced again gets the block index recorded for it)
ReuseToolBlockIndex(st, tool_call) ==
    IF tool_call.index \in DOMAIN st.tool_calls
    THEN st.tool_calls[tool_call.index]
    ELSE st.content_block_index

\* let anthropic_block_index = state.content_block_index;
NewToolBlockIndex(st, tool_call) == st.content_block_index

\* state.tool_calls.insert(tool_call.index, ToolCallState { .. })
Insert(map, key, value) ==
    [k \in DOMAIN map \cup {key} |-> IF k = key THEN value ELSE map[k]]

\* A new tool call starting: the entry has an id and a function with a name.
\* (function = None is an entry with neither name nor arguments.)
NewToolCallStep(st, tool_call) ==
    IF tool_call.id # <<>> /\ tool_call.name # <<>>
    THEN LET closed == ClosePreviousBlock(st)
             anthropic_block_index == NewToolBlockIndex(closed, tool_call)
         IN [Emit(closed, ToolUseStart(anthropic_block_index, tool_call.id[1],
                                       tool_call.name[1]))
                EXCEPT !.tool_calls = Insert(@, tool_call.index, anthropic_block_index),
                       !.content_block_open = TRUE]
    ELSE st

\* (mutant: empty arguments are passed over)
ArgumentsSkipEmpty(st, tool_call) ==
    IF tool_call.arguments \notin {<<>>, <<"">>} /\ tool_call.index \in DOMAIN st.tool_calls
    THEN Emit(st, InputJsonDelta(st.tool_calls[tool_call.index], tool_call.arguments[1]))
    ELSE st

\* Tool call arguments delta, against the recorded anthropic_block_index
ArgumentsStep(st, tool_call) ==
    IF tool_call.arguments # <<>> /\ tool_call.index \in DOMAIN st.tool_calls
    THEN Emit(st, InputJsonDelta(st.tool_calls[tool_call.index], tool_call.arguments[1]))
    ELSE st

\* for tool_call in tool_calls { ... }
RECURSIVE ToolCallsStep(_, _)
ToolCallsStep(st, calls) ==
    IF calls = <<>>
    THEN st
    ELSE ToolCallsStep(ArgumentsStep(NewToolCallStep(st, Head(calls)), Head(calls)),
                       Tail(calls))

\* if state.content_block_open { push ContentBlockStop; open = false }
CloseAtFinish(st) ==
    IF st.content_block_open
    THEN [Emit(st, ContentBlockStop(st.content_block_index))
            EXCEPT !.content_block_open = FALSE]
    ELSE st

\* if let Some(ref finish_reason) = choice.finish_reason { ... }
FinishStep(st, choice) ==
    IF choice.finish_reason = "None"
    THEN st
    ELSE Emit(Emit(CloseAtFinish(st), MessageDelta(map_stop_reason(choice.finish_reason))),
              MessageStop)

\* translate_chunk: st.events is empty on entry and holds the returned Vec
translate_chunk(chunk, st) ==
    IF chunk.choices = <<>>
    THEN st
    ELSE LET choice == chunk.choices[1]
         IN FinishStep(
                ToolCallsStep(
                    TextStep(MessageStartStep(st), choice.delta),
                    choice.delta.tool_calls),
                choice)

(***************************************************************************)
(* handle_streaming: one StreamState per response, fed the upstream's      *)
(* payloads in order until the upstream closes.  What the client has been  *)
(* sent is kept as the events of the last step (last_events) and a summary *)
(* of all events before: the blocks started and not stopped, the index of  *)
(* the last block started, the first event, the message events counted.    *)
(***************************************************************************)
MaxBlocks == 2
MaxToolCalls == 1
MaxMessageStops == 2

ToolIndexes == {0, 1}
FinishReasons == {"stop", "tool_calls"}

\* DeltaToolCall: id, function.name and function.arguments present or not.
\* An id without a name, or a name without an id, starts no tool call, like
\* neither; an entry with neither and no arguments changes nothing.
DeltaToolCalls ==
    {tc \in [index : ToolIndexes, id : {<<>>, <<"call_1">>}, name : {<<>>, <<"f">>},
             arguments : {<<>>, <<"1}">>}] :
        /\ (tc.id = <<>>) = (tc.name = <<>>)
        /\ tc.id # <<>> \/ tc.arguments # <<>>}

\* ChatCompletionChunk: no choice, or choices[0] with its delta
Chunks ==
    {[choices |-> <<>>]} \cup
    {[choices |-> <<[delta |-> [content |-> c, tool_calls |-> t], finish_reason |-> f]>>] :
        c \in {"None", "Some"},
        t \in SeqsUpTo(DeltaToolCalls, MaxToolCalls),
        f \in {"None"} \cup FinishReasons}

\* The first occurrence of x taken out of sequence s.
RECURSIVE RemoveFirst(_, _)
RemoveFirst(s, x) ==
    IF s = <<>> THEN <<>>
    ELSE IF Head(s) = x THEN Tail(s)
    ELSE <<Head(s)>> \o RemoveFirst(Tail(s), x)

\* The blocks started and not stopped once the client has read evs, open
\* being those before.
RECURSIVE OpenAfter(_, _)
OpenAfter(open, evs) ==
    IF evs = <<>> THEN open
    ELSE LET e == Head(evs)
         IN OpenAfter(CASE e.type = "content_block_start" -> Append(open, e.index)
                        [] e.type = "content_block_stop" -> RemoveFirst(open, e.index)
                        [] OTHER -> open,
                      Tail(evs))

CountType(evs, type) == Cardinality({k \in 1..Len(evs) : evs[k].type = type})

StartIndexes(evs) ==
    LET RECURSIVE Starts(_)
        Starts(es) ==
            IF es = <<>> THEN <<>>
            ELSE IF Head(es).type = "content_block_start"
                 THEN <<Head(es).index>> \o Starts(Tail(es))
                 ELSE Starts(Tail(es))
    IN Starts(evs)

\* The events evs reach the client.
Yield(evs) ==
    /\ last_events' = evs
    /\ open_blocks' = OpenAfter(open_blocks, evs)
    /\ last_start' = IF StartIndexes(evs) = <<>> THEN last_start
                     ELSE StartIndexes(evs)[Len(StartIndexes(evs))]
    /\ first_event' = IF first_event = "none" /\ evs # <<>> THEN evs[1].type
                      ELSE first_event
    /\ n_message_start' = n_message_start + CountType(evs, "message_start")
    /\ n_message_stop' = n_message_stop + CountType(evs, "message_stop")

StreamInit ==
    /\ message_start_sent = NewStreamState.message_start_sent
    /\ content_block_index = NewStreamState.content_block_index
    /\ content_block_open = NewStreamState.content_block_open
    /\ tool_calls = NewStreamState.tool_calls
    /\ thinking_parser \in {"None", "Some"}
    /\ hs_pc = "reading"
    /\ choice_seen = FALSE
    /\ last_events = <<>>
    /\ open_blocks = <<>>
    /\ last_start = NoIndex
    /\ first_event = "none"
    /\ n_message_start = 0
    /\ n_message_stop = 0

\* One payload parsed as a chunk: translate_chunk, every event yielded.
HandleChunk(chunk) ==
    /\ hs_pc = "reading"
    /\ content_block_index < MaxBlocks
    /\ n_message_stop < MaxMessageStops
    /\ LET st == [message_start_sent |-> message_start_sent,
                  content_block_index |-> content_block_index,
                  content_block_open |-> content_block_open,
                  tool_calls |-> tool_calls,
                  events |-> <<>>]
           after == translate_chunk(chunk, st)
       IN /\ message_start_sent' = after.message_start_sent
          /\ content_block_index' = after.content_block_index
          /\ content_block_open' = after.content_block_open
          /\ tool_calls' = after.tool_calls
          /\ Yield(after.events)
    /\ choice_seen' = (choice_seen \/ chunk.choices # <<>>)
    /\ UNCHANGED <<thinking_parser, hs_pc>>
    /\ UNCHANGED notStream

\* One payload that is "[DONE]" or does not parse as a chunk: nothing is
\* translated, and the loop goes on reading.
HandleUnparsable ==
    /\ hs_pc = "reading"
    /\ Yield(<<>>)
    /\ UNCHANGED <<message_start_sent, content_block_index, content_block_open,
                   tool_calls, thinking_parser, hs_pc, choice_seen>>
    /\ UNCHANGED notStream

\* The flush after the read loop: state.thinking_parser.take(), finish()
FlushEvents(parser, buf, inth, index) ==
    IF parser = "Some"
    THEN LET final == ParserFinish(buf, inth)
         IN IF final = <<>> THEN <<>>
            ELSE IF final[1].kind = "ThinkingDelta"
                 THEN <<ContentBlockDelta(index, "thinking_delta")>>
                 ELSE IF final[1].kind = "TextDelta"
                      THEN <<ContentBlockDelta(index, "text_delta")>>
                      ELSE <<>>
    ELSE <<>>

\* The upstream closes (or a read fails): the loop ends, the parser is flushed.
UpstreamClose ==
    /\ hs_pc = "reading"
    /\ Yield(FlushEvents(thinking_parser, buffer, in_thinking, content_block_index))
    /\ thinking_parser' = "None"
    /\ hs_pc' = "closed"
    /\ UNCHANGED <<message_start_sent, content_block_index, content_block_open,
                   tool_calls, choice_seen>>
    /\ UNCHANGED notStream

StreamNext ==
    \/ \E chunk \in Chunks : HandleChunk(chunk)
    \/ HandleUnparsable
    \/ UpstreamClose

(***************************************************************************)
(* SSE framing: handle_streaming's buffer, extract_next_sse_data and       *)
(* parse_sse_data.  The upstream stream is a sequence of bytes: ASCII      *)
(* characters, "CR", "LF", and "U2a" "U2b", the two bytes of the character *)
(* "U2".  The buffer is a String, a sequence of characters.                *)
(***************************************************************************)
LFLF == <<"LF", "LF">>
CRLFCRLF == <<"CR", "LF", "CR", "LF">>
DATA_PREFIX == <<"d", "a", "t", "a", ":">>

\* String::from_utf8_lossy(&chunk_bytes): a whole two-byte sequence is its
\* character, a byte of it standing alone is U+FFFD.
RECURSIVE from_utf8_lossy(_)
from_utf8_lossy(bytes) ==
    IF bytes = <<>> THEN <<>>
    ELSE IF Len(bytes) >= 2 /\ bytes[1] = "U2a" /\ bytes[2] = "U2b"
         THEN <<"U2">> \o from_utf8_lossy(SubSeq(bytes, 3, Len(bytes)))
         ELSE <<IF Head(bytes) \in {"U2a", "U2b"} THEN "FFFD" ELSE Head(bytes)>>
                  \o from_utf8_lossy(Tail(bytes))

\* str::lines: split at "\n", a "\r" just before the "\n" dropped with it;
\* what follows the last "\n" is a line only when it is not empty.
RECURSIVE lines(_)
lines(s) ==
    IF s = <<>> THEN <<>>
    ELSE LET nl == Find(s, <<"LF">>)
         IN IF nl = 0 THEN <<s>>
            ELSE LET line == SubSeq(s, 1, nl - 1)
                     n == Len(line)
                 IN <<IF n > 0 /\ line[n] = "CR" THEN SubSeq(line, 1, n - 1) ELSE line>>
                        \o lines(SubSeq(s, nl + 1, Len(s)))

\* str::trim_start
RECURSIVE trim_start(_)
trim_start(s) ==
    IF s # <<>> /\ Head(s) \in {" ", "CR", "LF"} THEN trim_start(Tail(s)) ELSE s

\* The value of a line of a block: what follows "data:" less one leading
\* space, as a one-element sequence; nothing for any other line.
DataValue(line) ==
    LET l == trim_start(line)
    IN IF Len(l) >= Len(DATA_PREFIX) /\ SubSeq(l, 1, Len(DATA_PREFIX)) = DATA_PREFIX
       THEN LET rest == SubSeq(l, Len(DATA_PREFIX) + 1, Len(l))
            IN <<IF rest # <<>> /\ Head(rest) = " " THEN Tail(rest) ELSE rest>>
       ELSE <<>>

\* data_parts.join("\n")
RECURSIVE Join(_)
Join(parts) ==
    IF Len(parts) = 1 THEN parts[1]
    ELSE parts[1] \o <<"LF">> \o Join(Tail(parts))

\* parse_sse_data: Option<String> as a sequence of 0 or 1 strings
parse_sse_data(block) ==
    LET ls == lines(block)
        data_parts == Flatten([k \in 1..Len(ls) |-> DataValue(ls[k])])
    IN IF data_parts = <<>> THEN <<>> ELSE <<Join(data_parts)>>

\* extract_next_sse_data: the data returned (0 or 1 strings) and the buffer
\* left.  "\n\n" is looked for first, "\r\n\r\n" only when there is none.
RECURSIVE extract_next_sse_data(_)
extract_next_sse_data(buf) ==
    LET boundary == Find(buf, LFLF)
        pos == IF boundary = 0 THEN Find(buf, CRLFCRLF) ELSE boundary
        width == IF boundary = 0 THEN Len(CRLFCRLF) ELSE Len(LFLF)
    IN IF pos = 0
       THEN [data |-> <<>>, buffer |-> buf]
       ELSE LET data == parse_sse_data(SubSeq(buf, 1, pos - 1))
                rest == SubSeq(buf, pos + width, Len(buf))
            IN IF data # <<>>
               THEN [data |-> data, buffer |-> rest]
               ELSE extract_next_sse_data(rest)

\* while let Some(event_data) = extract_next_sse_data(&mut buffer) { .. }
RECURSIVE Drain(_, _)
Drain(buf, got) ==
    LET r == extract_next_sse_data(buf)
    IN IF r.data = <<>>
       THEN [data |-> got, buffer |-> r.buffer]
       ELSE Drain(r.buffer, got \o r.data)

\* The whole stream appended at once, then drained.
FeedWhole(stream) == Drain(from_utf8_lossy(stream), <<>>).data

(***************************************************************************)
(* Well-formed SSE streams: event blocks, each a few lines ended by the    *)
(* block's line ending and closed by one more line ending, so by "\n\n"    *)
(* or by "\r\n\r\n".                                                       *)
(***************************************************************************)
MaxEvents == 2

LineEndings == {<<"LF">>, <<"CR", "LF">>}

BlockLines ==
    { << <<"d", "a", "t", "a", ":", " ", "x">> >>,
      << <<"d", "a", "t", "a", ":", "y">>, <<"d", "a", "t", "a", ":", " ", "z">> >>,
      << <<":", "c">> >>,
      << <<"d", "a", "t", "a", ":", "U2a", "U2b">> >> }

EventBlock(ls, eol) == Flatten([k \in 1..Len(ls) |-> ls[k] \o eol]) \o eol

EventBlocks == {EventBlock(ls, eol) : ls \in BlockLines, eol \in LineEndings}

SseStreams == {Flatten(bs) : bs \in SeqsUpTo(EventBlocks, MaxEvents)}

SseInit ==
    /\ sse_stream \in SseStreams
    /\ sse_fed = 0
    /\ sse_buffer = <<>>
    /\ sse_data = <<>>

\* The next byte of the stream arrives as a chunk of its own:
\* buffer.push_str(&String::from_utf8_lossy(&chunk_bytes)), then the drain.
FeedByte ==
    /\ sse_fed < Len(sse_stream)
    /\ LET r == Drain(sse_buffer \o from_utf8_lossy(<<sse_stream[sse_fed + 1]>>), <<>>)
       IN /\ sse_buffer' = r.buffer
          /\ sse_data' = sse_data \o r.data
    /\ sse_fed' = sse_fed + 1
    /\ UNCHANGED sse_stream
    /\ UNCHANGED notSse

SseNext == FeedByte

(***************************************************************************)
(* TokenCache: get_copilot_token called by concurrent requests.  A call    *)
(* takes the read lock and checks the cache, then, on a miss, awaits the   *)
(* exchange with the upstream, then takes the write lock, inserts and      *)
(* returns; other calls and the clock move between these steps.            *)
(***************************************************************************)
EXPIRY_BUFFER_SECS == 120

MaxTicks == 3
MaxIssued == 2

TickSecs == {60}
Callers == {1, 2}
GhTokens == {"gh"}

\* The lifetimes the upstream may answer with: expires_at - now
Lifetimes == {60, 120, 121, 181}

NoEntry == [copilot_token |-> 0, expires_at |-> 0]
NoReturn == [result |-> "none", copilot_token |-> 0, expires_at |-> 0, at |-> 0]

CachedToken(token, expires_at) == [copilot_token |-> token, expires_at |-> expires_at]

\* CachedToken::is_valid, the clock reading t
is_valid(entry, t) == entry.expires_at > t + EXPIRY_BUFFER_SECS

\* (mutant: the call returns the token the cache held before its insert)
ReturnCachedBefore(entry, t) ==
    LET cached == entries[CHOOSE g \in GhTokens : TRUE]
    IN [result |-> "Ok", copilot_token |-> cached.copilot_token,
        expires_at |-> cached.expires_at, at |-> t]

\* Ok(token), returned when the clock reads t
ReturnOk(entry, t) ==
    [result |-> "Ok", copilot_token |-> entry.copilot_token,
     expires_at |-> entry.expires_at, at |-> t]

TokenInit ==
    /\ now = 0
    /\ entries = [g \in GhTokens |-> NoEntry]
    /\ issued = 0
    /\ tc_pc = [c \in Callers |-> "idle"]
    /\ tc_resp = [c \in Callers |-> NoEntry]
    /\ tc_ret = [c \in Callers |-> NoReturn]

\* Fast path: read lock, check cache.  A valid entry is returned; otherwise
\* the call goes on to the exchange.
CheckCache(c, g) ==
    /\ tc_pc[c] = "idle"
    /\ IF entries[g] # NoEntry /\ is_valid(entries[g], now)
       THEN /\ tc_ret' = [tc_ret EXCEPT ![c] = ReturnOk(entries[g], now)]
            /\ UNCHANGED tc_pc
       ELSE /\ tc_pc' = [tc_pc EXCEPT ![c] = "exchange"]
            /\ tc_ret' = [tc_ret EXCEPT ![c] = NoReturn]
    /\ UNCHANGED <<now, entries, issued, tc_resp>>
    /\ UNCHANGED notToken

\* Slow path: fetch_copilot_token answers with a new token and its expires_at.
Exchange(c, lifetime) ==
    /\ tc_pc[c] = "exchange"
    /\ issued < MaxIssued
    /\ issued' = issued + 1
    /\ tc_resp' = [tc_resp EXCEPT ![c] = CachedToken(issued + 1, now + lifetime)]
    /\ tc_pc' = [tc_pc EXCEPT ![c] = "insert"]
    /\ UNCHANGED <<now, entries, tc_ret>>
    /\ UNCHANGED notToken

\* fetch_copilot_token(..).await? fails: the call returns the error.
ExchangeFails(c) ==
    /\ tc_pc[c] = "exchange"
    /\ tc_ret' = [tc_ret EXCEPT ![c] = [NoReturn EXCEPT !.result = "Err", !.at = now]]
    /\ tc_pc' = [tc_pc EXCEPT ![c] = "idle"]
    /\ UNCHANGED <<now, entries, issued, tc_resp>>
    /\ UNCHANGED notToken

\* Write lock, cache.insert(gh_token, CachedToken { .. }), Ok(copilot_token)
InsertAndReturn(c, g) ==
    /\ tc_pc[c] = "insert"
    /\ entries' = [entries EXCEPT ![g] = tc_resp[c]]
    /\ tc_ret' = [tc_ret EXCEPT ![c] = ReturnOk(tc_resp[c], now)]
    /\ tc_resp' = [tc_resp EXCEPT ![c] = NoEntry]
    /\ tc_pc' = [tc_pc EXCEPT ![c] = "idle"]
    /\ UNCHANGED <<now, issued>>
    /\ UNCHANGED notToken

\* The clock advances.
Tick(d) ==
    /\ now + d <= MaxTicks * 60
    /\ now' = now + d
    /\ UNCHANGED <<entries, issued, tc_pc, tc_resp, tc_ret>>
    /\ UNCHANGED notToken

TokenNext ==
    \/ \E c \in Callers, g \in GhTokens : CheckCache(c, g)
    \/ \E c \in Callers, lifetime \in Lifetimes : Exchange(c, lifetime)
    \/ \E c \in Callers : ExchangeFails(c)
    \/ \E c \in Callers, g \in GhTokens : InsertAndReturn(c, g)
    \/ \E d \in TickSecs : Tick(d)

(***************************************************************************)
(* ModelRenamer, and the model name of a /v1/messages request.  A model    *)
(* name is a string, a sequence of characters.  An Option<String> is a     *)
(* sequence of 0 or 1 strings; a HashMap is a function on its keys.        *)
(***************************************************************************)
CLAUDE_PREFIX == <<"c", "l", "a", "u", "d", "e", "-">>
SONNET_4_PREFIX ==
    <<"c", "l", "a", "u", "d", "e", "-", "s", "o", "n", "n", "e", "t", "-", "4", "-">>
OPUS_4_PREFIX == <<"c", "l", "a", "u", "d", "e", "-", "o", "p", "u", "s", "-", "4", "-">>

claude_sonnet_4dot5 ==
    <<"c", "l", "a", "u", "d", "e", "-", "s", "o", "n", "n", "e", "t", "-", "4", ".", "5">>
claude_sonnet_4_5 ==
    <<"c", "l", "a", "u", "d", "e", "-", "s", "o", "n", "n", "e", "t", "-", "4", "-", "5">>
claude_sonnet_4 ==
    <<"c", "l", "a", "u", "d", "e", "-", "s", "o", "n", "n", "e", "t", "-", "4">>
claude_3dot5_sonnet ==
    <<"c", "l", "a", "u", "d", "e", "-", "3", ".", "5", "-", "s", "o", "n", "n", "e", "t">>
claude_opus_4dot6_fast ==
    <<"c", "l", "a", "u", "d", "e", "-", "o", "p", "u", "s", "-", "4", ".", "6", "-", "f", "a", "s", "t">>
claude_opus_4 == <<"c", "l", "a", "u", "d", "e", "-", "o", "p", "u", "s", "-", "4">>
gpt_4dot1 == <<"g", "p", "t", "-", "4", ".", "1">>
my_sonnet == <<"m", "y", "-", "s", "o", "n", "n", "e", "t">>
claude_sonnet_4_20250514 ==
    <<"c", "l", "a", "u", "d", "e", "-", "s", "o", "n", "n", "e", "t", "-", "4", "-", "2", "0", "2", "5", "0", "5", "1", "4">>

\* char::is_ascii_digit
IsDigit(c) == c \in {"0", "1", "2", "3", "4", "5", "6", "7", "8", "9"}

\* str::strip_prefix
strip_prefix(s, p) ==
    IF Len(s) >= Len(p) /\ SubSeq(s, 1, Len(p)) = p
    THEN <<SubSeq(s, Len(p) + 1, Len(s))>>
    ELSE <<>>

\* str::split(sep)
RECURSIVE Split(_, _)
Split(s, sep) ==
    LET i == Find(s, <<sep>>)
    IN IF i = 0 THEN <<s>>
       ELSE <<SubSeq(s, 1, i - 1)>> \o Split(SubSeq(s, i + 1, Len(s)), sep)

\* [&str]::join(sep)
RECURSIVE JoinWith(_, _)
JoinWith(parts, sep) ==
    IF parts = <<>> THEN <<>>
    ELSE IF Len(parts) = 1 THEN parts[1]
    ELSE parts[1] \o sep \o JoinWith(Tail(parts), sep)

\* (mutant: what follows the dot is not looked at)
ReplaceDotsAfterDigit(s) ==
    [i \in 1..Len(s) |-> IF s[i] = "." /\ i > 1 /\ IsDigit(s[i - 1]) THEN "-" ELSE s[i]]

\* replace_version_dots: a dot between two digits becomes a dash
replace_version_dots(s) ==
    [i \in 1..Len(s) |->
        IF /\ s[i] = "."
           /\ i > 1
           /\ IsDigit(s[i - 1])
           /\ i + 1 <= Len(s)
           /\ IsDigit(s[i + 1])
        THEN "-"
        ELSE s[i]]

\* segment.chars().next().map(|c| c.is_ascii_digit()).unwrap_or(false)
StartsWithDigit(segment) == segment # <<>> /\ IsDigit(segment[1])

\* auto_rename
auto_rename(name) ==
    IF strip_prefix(name, CLAUDE_PREFIX) = <<>>
    THEN <<>>
    ELSE LET rest == strip_prefix(name, CLAUDE_PREFIX)[1]
             segments == Split(rest, "-")
             first_is_version == StartsWithDigit(segments[1])
             version_end ==
                 CHOOSE k \in 0..Len(segments) :
                     /\ \A j \in 1..k : StartsWithDigit(segments[j])
                     /\ k < Len(segments) => ~StartsWithDigit(segments[k + 1])
         IN IF first_is_version
            THEN IF version_end = Len(segments)
                 THEN <<>>
                 ELSE LET version_raw == JoinWith(SubSeq(segments, 1, version_end), <<"-">>)
                          variant == JoinWith(SubSeq(segments, version_end + 1, Len(segments)),
                                              <<"-">>)
                          version_dashed == replace_version_dots(version_raw)
                      IN <<CLAUDE_PREFIX \o variant \o <<"-">> \o version_dashed>>
            ELSE LET normalized == replace_version_dots(rest)
                 IN IF normalized = rest THEN <<>> ELSE <<CLAUDE_PREFIX \o normalized>>

\* ModelRenamer::rename
rename(forward, auto, upstream_name) ==
    IF upstream_name \in DOMAIN forward
    THEN forward[upstream_name]
    ELSE IF auto /\ auto_rename(upstream_name) # <<>>
         THEN auto_rename(upstream_name)[1]
         ELSE upstream_name

\* (mutant: register keeps the name learned first)
RegisterKeepsFirst(learned, upstream_name, display_name) ==
    IF upstream_name # display_name /\ display_name \notin DOMAIN learned
    THEN [d \in DOMAIN learned \cup {display_name} |->
            IF d = display_name THEN upstream_name ELSE learned[d]]
    ELSE learned

\* (mutant: register records nothing)
RegisterNothing(learned, upstream_name, display_name) == learned

\* ModelRenamer::register: the learned map afterwards
register(learned, upstream_name, display_name) ==
    IF upstream_name # display_name
    THEN [d \in DOMAIN learned \cup {display_name} |->
            IF d = display_name THEN upstream_name ELSE learned[d]]
    ELSE learned

\* (mutant: the learned map is consulted before the custom map)
ResolveLearnedFirst(custom, learned, display_name) ==
    IF display_name \in DOMAIN learned
    THEN learned[display_name]
    ELSE IF display_name \in DOMAIN custom
         THEN custom[display_name]
         ELSE display_name

\* ModelRenamer::resolve
resolve(custom, learned, display_name) ==
    IF display_name \in DOMAIN custom
    THEN custom[display_name]
    ELSE IF display_name \in DOMAIN learned
         THEN learned[display_name]
         ELSE display_name

\* (mutant: the family prefixes are matched without their trailing dash)
NormalizeLoosePrefix(model) ==
    IF Len(model) > Len(claude_sonnet_4)
        /\ SubSeq(model, 1, Len(claude_sonnet_4)) = claude_sonnet_4
    THEN claude_sonnet_4
    ELSE IF Len(model) > Len(claude_opus_4)
            /\ SubSeq(model, 1, Len(claude_opus_4)) = claude_opus_4
         THEN claude_opus_4
         ELSE model

\* request.rs normalize_model_name
normalize_model_name(model) ==
    IF strip_prefix(model, SONNET_4_PREFIX) # <<>> /\ strip_prefix(model, SONNET_4_PREFIX)[1] # <<>>
    THEN claude_sonnet_4
    ELSE IF strip_prefix(model, OPUS_4_PREFIX) # <<>> /\ strip_prefix(model, OPUS_4_PREFIX)[1] # <<>>
         THEN claude_opus_4
         ELSE model

(***************************************************************************)
(* The renamer in use: built from the environment, taught the model list   *)
(* one model at a time (rename, then register), asked by post_messages.    *)
(***************************************************************************)
MaxCustom == 2

UpstreamIds ==
    {claude_sonnet_4dot5, claude_sonnet_4_5, claude_sonnet_4, claude_3dot5_sonnet, gpt_4dot1}

\* The display names MODEL_RENAME_MAP may give
CustomDisplayNames == {my_sonnet, claude_sonnet_4_5}

\* MODEL_RENAME_MAP: {"upstream-name": "display-name", ...}
CustomMaps ==
    UNION {[K -> CustomDisplayNames] :
              K \in {X \in SUBSET UpstreamIds : Cardinality(X) <= MaxCustom}}

\* custom.iter().map(|(k, v)| (v, k)).collect(): for a display name given to
\* several upstream names, the one the iteration of the HashMap visits last
ReverseMaps(custom) ==
    {r \in [{custom[k] : k \in DOMAIN custom} -> DOMAIN custom] :
        \A d \in DOMAIN r : custom[r[d]] = d}

\* The model names a client may ask for
RequestModels ==
    UpstreamIds \cup CustomDisplayNames
        \cup {auto_rename(u)[1] : u \in {x \in UpstreamIds : auto_rename(x) # <<>>}}
        \cup {claude_sonnet_4_20250514}

\* ModelRenamer::from_env
RenameInit ==
    /\ auto_enabled \in BOOLEAN
    /\ custom_forward \in CustomMaps
    /\ custom_reverse \in ReverseMaps(custom_forward)
    /\ learned_reverse = <<>>
    /\ rn_last = <<>>
    /\ req_model = <<>>
    /\ resolved_model = <<>>
    /\ sent_model = <<>>

\* One model of the fetched model list: rename it and register the pair.
RegisterModel(u) ==
    /\ learned_reverse' =
          register(learned_reverse, u, rename(custom_forward, auto_enabled, u))
    /\ rn_last' = u
    /\ req_model' = <<>>
    /\ resolved_model' = <<>>
    /\ sent_model' = <<>>
    /\ UNCHANGED <<auto_enabled, custom_forward, custom_reverse>>
    /\ UNCHANGED notRename

\* post_messages: req.model = renamer.resolve(req.model), then
\* translate_request gives the upstream model normalize_model_name(req.model).
PostMessages(model) ==
    /\ req_model' = model
    /\ resolved_model' = resolve(custom_reverse, learned_reverse, model)
    /\ sent_model' = normalize_model_name(resolve(custom_reverse, learned_reverse, model))
    /\ UNCHANGED <<auto_enabled, custom_forward, custom_reverse, learned_reverse, rn_last>>
    /\ UNCHANGED notRename

RenameNext ==
    \/ \E u \in UpstreamIds : RegisterModel(u)
    \/ \E model \in RequestModels : PostMessages(model)

(***************************************************************************)
(* RequestTranslator: translate_messages.  A text is known by the block it *)
(* comes from, <<turn, position>>; texts joined by "\n\n" are the sequence *)
(* of what was joined.  An emitted message carries the turn it was         *)
(* translated from (0 for the system message).                             *)
(***************************************************************************)
NoContent == <<>>

Message(role, content, calls, tool_call_id) ==
    [role |-> role, content |-> content, tool_calls |-> calls,
     tool_call_id |-> tool_call_id]

\* The blocks of a sequence that are of one of the types, in order.
RECURSIVE FilterBlocks(_, _)
FilterBlocks(blocks, types) ==
    IF blocks = <<>> THEN <<>>
    ELSE IF Head(blocks).type \in types
         THEN <<Head(blocks)>> \o FilterBlocks(Tail(blocks), types)
         ELSE FilterBlocks(Tail(blocks), types)

BlockIds(blocks) == [k \in 1..Len(blocks) |-> blocks[k].id]

\* for block in blocks { if let ToolResult(tr) = block { out.push(tool message) } }
ToolMessages(blocks) ==
    LET results == FilterBlocks(blocks, {"tool_result"})
    IN [k \in 1..Len(results) |->
            Message("tool", <<"Text", <<results[k].id>>>>, <<>>, <<results[k].id>>)]

\* The user message built from the blocks that are not tool results: parts
\* when an image is among them, the joined texts otherwise; none for no block.
OtherBlocksMessage(blocks) ==
    LET other_blocks == FilterBlocks(blocks, {"text", "image"})
        has_image == \E k \in 1..Len(other_blocks) : other_blocks[k].type = "image"
    IN IF other_blocks = <<>> THEN <<>>
       ELSE IF has_image
            THEN <<Message("user", <<"Parts", other_blocks>>, <<>>, <<>>)>>
            ELSE <<Message("user", <<"Text", BlockIds(other_blocks)>>, <<>>, <<>>)>>

\* (mutant: the user message is pushed before the tool messages)
UserMessageFirst(content) ==
    IF content.form = "Text"
    THEN <<Message("user", <<"Text", <<content.id>>>>, <<>>, <<>>)>>
    ELSE OtherBlocksMessage(content.blocks) \o ToolMessages(content.blocks)

\* translate_user_message
translate_user_message(content) ==
    IF content.form = "Text"
    THEN <<Message("user", <<"Text", <<content.id>>>>, <<>>, <<>>)>>
    ELSE ToolMessages(content.blocks) \o OtherBlocksMessage(content.blocks)

\* translate_assistant_message: one assistant message
translate_assistant_message(content) ==
    IF content.form = "Text"
    THEN <<Message("assistant", <<"Text", <<content.id>>>>, <<>>, <<>>)>>
    ELSE LET tool_use_blocks == FilterBlocks(content.blocks, {"tool_use"})
             text_content == BlockIds(FilterBlocks(content.blocks, {"text", "thinking"}))
         IN <<Message("assistant",
                      IF text_content = <<>> THEN NoContent ELSE <<"Text", text_content>>,
                      BlockIds(tool_use_blocks), <<>>)>>

FromTurn(msgs, turn) ==
    [k \in 1..Len(msgs) |-> [turn |-> turn, message |-> msgs[k]]]

\* for msg in messages { out.extend(..) }, from message number turn on
RECURSIVE TranslateFrom(_, _)
TranslateFrom(messages, turn) ==
    IF turn > Len(messages) THEN <<>>
    ELSE FromTurn(IF messages[turn].role = "user"
                  THEN translate_user_message(messages[turn].content)
                  ELSE translate_assistant_message(messages[turn].content),
                  turn)
            \o TranslateFrom(messages, turn + 1)

\* translate_messages
translate_messages(messages, system) ==
    (IF system
     THEN FromTurn(<<Message("system", <<"Text", <<<<0, 0>>>>>>, <<>>, <<>>)>>, 0)
     ELSE <<>>)
        \o TranslateFrom(messages, 1)

(***************************************************************************)
(* Requests: up to MaxTurns messages, a user message in block form with up *)
(* to MaxUserBlocks blocks.                                                *)
(***************************************************************************)
MaxTurns == 2
MaxUserBlocks == 2

UserBlockTypes == {"text", "image", "tool_result"}

\* What a message is made of: its role, its form, the types of its blocks
MessageShapes ==
    {[role |-> "user", form |-> "Text", types |-> <<>>],
     [role |-> "assistant", form |-> "Text", types |-> <<>>],
     [role |-> "assistant", form |-> "Blocks", types |-> <<"text", "tool_use">>]}
        \cup {[role |-> "user", form |-> "Blocks", types |-> ts] :
                 ts \in SeqsUpTo(UserBlockTypes, MaxUserBlocks)}

\* The message of a shape at a turn, its texts named after turn and position
MessageOf(shape, turn) ==
    [role |-> shape.role,
     content |-> [form |-> shape.form,
                  id |-> <<turn, 0>>,
                  blocks |-> [k \in 1..Len(shape.types) |->
                                 [type |-> shape.types[k], id |-> <<turn, k>>]]]]

Requests ==
    {[turn \in 1..Len(shapes) |-> MessageOf(shapes[turn], turn)] :
        shapes \in SeqsUpTo(MessageShapes, MaxTurns)}

RequestInit ==
    /\ rq_system \in BOOLEAN
    /\ rq_messages \in Requests
    /\ rq_out = <<>>
    /\ rq_pc = "received"

RequestIdle ==
    /\ rq_system = FALSE
    /\ rq_messages = <<>>
    /\ rq_out = <<>>
    /\ rq_pc = "idle"

\* translate_request: messages = translate_messages(&req.messages, &req.system)
TranslateRequest ==
    /\ rq_pc = "received"
    /\ rq_out' = translate_messages(rq_messages, rq_system)
    /\ rq_pc' = "translated"
    /\ UNCHANGED <<rq_system, rq_messages>>
    /\ UNCHANGED notRequest

RequestNext == TranslateRequest

(***************************************************************************)
(* Credential extraction (auth/extract.rs).  A header is an Option of its  *)
(* value; the character "HI" stands for a byte outside visible ASCII,      *)
(* which HeaderValue accepts and HeaderValue::to_str refuses.              *)
(***************************************************************************)
GH_TOKEN_PREFIXES == {<<"g", "h", "p", "_">>, <<"g", "h", "o", "_">>, <<"g", "h", "u", "_">>, <<"g", "i", "t", "h", "u", "b", "_", "p", "a", "t", "_">>}

BEARER_UPPER == <<"B", "e", "a", "r", "e", "r", " ">>
BEARER_LOWER == <<"b", "e", "a", "r", "e", "r", " ">>

\* str::starts_with
starts_with(s, p) == Len(s) >= Len(p) /\ SubSeq(s, 1, Len(p)) = p

\* (mutant: any value that starts with "gh" looks like a token)
LooksLikeGhAnything(s) == starts_with(s, <<"g", "h">>)

\* looks_like_gh_token
looks_like_gh_token(s) == \E p \in GH_TOKEN_PREFIXES : starts_with(s, p)

\* HeaderValue::to_str: Err when a byte is not visible ASCII
to_str(value) ==
    IF \E k \in 1..Len(value) : value[k] = "HI" THEN <<>> ELSE <<value>>

\* header_str: headers.get(name).and_then(|v| v.to_str().ok())
header_str(h, name) == IF h[name] = <<>> THEN <<>> ELSE to_str(h[name][1])

\* val.strip_prefix("Bearer ").or_else(|| val.strip_prefix("bearer "))
StripBearer(val) ==
    IF strip_prefix(val, BEARER_UPPER) # <<>>
    THEN strip_prefix(val, BEARER_UPPER)
    ELSE strip_prefix(val, BEARER_LOWER)

\* (mutant: the authorization header is probed before x-api-key)
ExtractAuthorizationFirst(h) ==
    LET x_api_key == header_str(h, "x-api-key")
        authorization == header_str(h, "authorization")
        token == IF authorization = <<>> THEN <<>> ELSE StripBearer(authorization[1])
        api_key == header_str(h, "api-key")
    IN IF token # <<>> /\ looks_like_gh_token(token[1]) THEN token
       ELSE IF x_api_key # <<>> /\ looks_like_gh_token(x_api_key[1]) THEN x_api_key
       ELSE IF api_key # <<>> /\ looks_like_gh_token(api_key[1]) THEN api_key
       ELSE <<>>

\* extract_gh_token
extract_gh_token(h) ==
    LET x_api_key == header_str(h, "x-api-key")
        authorization == header_str(h, "authorization")
        token == IF authorization = <<>> THEN <<>> ELSE StripBearer(authorization[1])
        api_key == header_str(h, "api-key")
    IN IF x_api_key # <<>> /\ looks_like_gh_token(x_api_key[1]) THEN x_api_key
       ELSE IF token # <<>> /\ looks_like_gh_token(token[1]) THEN token
       ELSE IF api_key # <<>> /\ looks_like_gh_token(api_key[1]) THEN api_key
       ELSE <<>>

(***************************************************************************)
(* Credential resolution (auth/resolve.rs)                                 *)
(***************************************************************************)
NoResponse == [result |-> "none", status |-> 0, error_type |-> "none"]

\* Ok(copilot token)
ResolveOk == [result |-> "Ok", status |-> 0, error_type |-> "none"]

\* Err((status, Json({"type": "error", "error": {"type": .., ..}})))
ErrorResponse(status, error_type) ==
    [result |-> "Err", status |-> status, error_type |-> error_type]

FORBIDDEN == 403
UNAUTHORIZED == 401

\* (mutant: the default credential is preferred to the one of the headers)
DefaultFirst(extracted, default) == IF default # <<>> THEN default ELSE extracted

\* extract_gh_token(headers).map(..).or_else(|| state.default_github_token.clone())
HeaderOrDefault(extracted, default) == IF extracted # <<>> THEN extracted ELSE default

HeaderNames == {"x-api-key", "authorization", "api-key"}

\* What a header may carry after an optional prefix
Credentials ==
    {<<"g", "h", "p", "_", "a">>,
     <<"g", "h", "o", "_", "b">>,
     <<"g", "h", "u", "_", "c">>,
     <<"g", "i", "t", "h", "u", "b", "_", "p", "a", "t", "_", "d">>,
     <<"s", "k", "-", "a">>,
     <<"g", "h", "p">>,
     <<"g", "h", "p", "_", "HI">>}

Wrappers == {<<>>, BEARER_UPPER, BEARER_LOWER, <<"B", "E", "A", "R", "E", "R", " ">>}

HeaderValues == {w \o c : w \in Wrappers, c \in Credentials}

HeaderMaps == [HeaderNames -> {<<>>} \cup {<<v>> : v \in HeaderValues}]

DefaultTokens == {<<>>, <<<<"g", "h", "p", "_", "e", "n", "v">>>>}

AuthInit ==
    /\ headers \in HeaderMaps
    /\ default_github_token \in DefaultTokens
    /\ ex_ret = <<>>
    /\ rs_gh_token = <<>>
    /\ rs_exchanges = 0
    /\ rs_ret = NoResponse
    /\ rs_pc = "received"

AuthIdle ==
    /\ headers = [n \in HeaderNames |-> <<>>]
    /\ default_github_token = <<>>
    /\ ex_ret = <<>>
    /\ rs_gh_token = <<>>
    /\ rs_exchanges = 0
    /\ rs_ret = NoResponse
    /\ rs_pc = "idle"

\* resolve_copilot_token up to the call of get_copilot_token: the credential
\* of the headers, else the default one, else 403
ResolveCredential ==
    /\ rs_pc = "received"
    /\ ex_ret' = extract_gh_token(headers)
    /\ LET gh_token == HeaderOrDefault(extract_gh_token(headers), default_github_token)
       IN IF gh_token = <<>>
          THEN /\ rs_ret' = ErrorResponse(FORBIDDEN, "authentication_error")
               /\ rs_pc' = "done"
               /\ UNCHANGED rs_gh_token
          ELSE /\ rs_gh_token' = gh_token
               /\ rs_pc' = "exchanging"
               /\ UNCHANGED rs_ret
    /\ UNCHANGED <<headers, default_github_token, rs_exchanges>>
    /\ UNCHANGED notAuth

\* get_copilot_token returns the cached token: Ok
TokenFromCache ==
    /\ rs_pc = "exchanging"
    /\ rs_ret' = ResolveOk
    /\ rs_pc' = "done"
    /\ UNCHANGED <<headers, default_github_token, ex_ret, rs_gh_token, rs_exchanges>>
    /\ UNCHANGED notAuth

\* get_copilot_token exchanges the credential: Ok
TokenExchanged ==
    /\ rs_pc = "exchanging"
    /\ rs_exchanges' = rs_exchanges + 1
    /\ rs_ret' = ResolveOk
    /\ rs_pc' = "done"
    /\ UNCHANGED <<headers, default_github_token, ex_ret, rs_gh_token>>
    /\ UNCHANGED notAuth

\* get_copilot_token's exchange fails: .map_err(|e| 401)
TokenExchangeFails ==
    /\ rs_pc = "exchanging"
    /\ rs_exchanges' = rs_exchanges + 1
    /\ rs_ret' = ErrorResponse(UNAUTHORIZED, "authentication_error")
    /\ rs_pc' = "done"
    /\ UNCHANGED <<headers, default_github_token, ex_ret, rs_gh_token>>
    /\ UNCHANGED notAuth

AuthNext ==
    \/ ResolveCredential
    \/ TokenFromCache
    \/ TokenExchanged
    \/ TokenExchangeFails

(***************************************************************************)
(* The refresh loop of the default credential (auth/token.rs).  Time       *)
(* passes in steps of RefreshTick seconds while the task sleeps.           *)
(***************************************************************************)
INITIAL_DELAY_SECS == 600
RETRY_SECS == 30
REFRESH_MARGIN_SECS == 60

\* The consecutive failures of the refresh call that are followed
MaxFailures == 3
RefreshTick == 30
RefreshIns == {0, 30, 60, 90, 150, 1500}

\* (mutant: the subtraction does not saturate)
SubBelowZero(a, b) == a - b

\* u64::saturating_sub
saturating_sub(a, b) == IF a > b THEN a - b ELSE 0

\* (mutant: a failure is retried after the refresh margin)
SleepSecsMarginOnFailure(result, refresh_in) ==
    IF result = "Ok" THEN saturating_sub(refresh_in, REFRESH_MARGIN_SECS)
    ELSE REFRESH_MARGIN_SECS

\* let sleep_secs = match refresh(..).await { Ok(refresh_in) => .., Err(e) => 30 }
sleep_secs(result, refresh_in) ==
    IF result = "Ok" THEN saturating_sub(refresh_in, REFRESH_MARGIN_SECS)
    ELSE RETRY_SECS

RefreshInit ==
    /\ rf_pc = "initial_sleep"
    /\ rf_sleep_secs = INITIAL_DELAY_SECS
    /\ rf_slept = 0
    /\ rf_last = "none"
    /\ rf_failures = 0
    /\ rf_entry = <<>>

RefreshIdle ==
    /\ rf_pc = "idle"
    /\ rf_sleep_secs = 0
    /\ rf_slept = 0
    /\ rf_last = "none"
    /\ rf_failures = 0
    /\ rf_entry = <<>>

\* Time passes during tokio::time::sleep
SleepTick ==
    /\ rf_pc \in {"initial_sleep", "sleep"}
    /\ rf_slept < rf_sleep_secs
    /\ rf_slept' = Min(rf_slept + RefreshTick, rf_sleep_secs)
    /\ UNCHANGED <<rf_pc, rf_sleep_secs, rf_last, rf_failures, rf_entry>>
    /\ UNCHANGED notRefresh

\* The sleep is over: the loop calls token_cache.refresh
StartRefresh ==
    /\ rf_pc \in {"initial_sleep", "sleep"}
    /\ rf_slept >= rf_sleep_secs
    /\ rf_pc' = "refresh"
    /\ UNCHANGED <<rf_sleep_secs, rf_slept, rf_last, rf_failures, rf_entry>>
    /\ UNCHANGED notRefresh

\* refresh returns Ok(refresh_in) after caching the response; the task
\* goes to sleep for refresh_in - 60 seconds
RefreshOk(refresh_in) ==
    /\ rf_pc = "refresh"
    /\ rf_entry' = <<refresh_in>>
    /\ rf_last' = "Ok"
    /\ rf_failures' = 0
    /\ rf_sleep_secs' = sleep_secs("Ok", refresh_in)
    /\ rf_slept' = 0
    /\ rf_pc' = "sleep"
    /\ UNCHANGED notRefresh

\* refresh returns Err, the cache as it was; the task goes to sleep for 30 s
RefreshErr ==
    /\ rf_pc = "refresh"
    /\ rf_failures < MaxFailures
    /\ rf_last' = "Err"
    /\ rf_failures' = rf_failures + 1
    /\ rf_sleep_secs' = sleep_secs("Err", 0)
    /\ rf_slept' = 0
    /\ rf_pc' = "sleep"
    /\ UNCHANGED rf_entry
    /\ UNCHANGED notRefresh

RefreshNext ==
    \/ SleepTick
    \/ StartRefresh
    \/ \E refresh_in \in RefreshIns : RefreshOk(refresh_in)
    \/ RefreshErr

(***************************************************************************)
(* ResponseTranslator (translate/response.rs).  A text or a tool call is   *)
(* known by the choice it comes from; an Option is a sequence of at most   *)
(* one element.                                                            *)
(***************************************************************************)
\* response.rs map_stop_reason
response_map_stop_reason(reason) ==
    CASE reason = "stop" -> "end_turn"
      [] reason = "length" -> "max_tokens"
      [] reason = "tool_calls" -> "tool_use"
      [] reason = "content_filter" -> "end_turn"
      [] OTHER -> "end_turn"

\* if i == 0 { stop_reason = finish_reason.as_deref().map(map_stop_reason) }
\* if finish_reason.as_deref() == Some("tool_calls") { stop_reason = Some(ToolUse) }
StopReasonAfter(stop_reason, i, finish_reason) ==
    IF finish_reason = <<"tool_calls">> THEN <<"tool_use">>
    ELSE IF i = 0
         THEN (IF finish_reason = <<>> THEN <<>>
               ELSE <<response_map_stop_reason(finish_reason[1])>>)
         ELSE stop_reason

\* The text block of a choice: none for no content and for empty content
TextBlocksOf(choice, i) ==
    IF choice.content # <<>> /\ choice.content[1] # ""
    THEN <<[type |-> "text", from |-> i]>>
    ELSE <<>>

\* translate_tool_call for each tool call of a choice
ToolBlocksOf(choice, i) ==
    IF choice.tool_calls = <<>> THEN <<>>
    ELSE [k \in 1..Len(choice.tool_calls[1]) |->
             [type |-> "tool_use", from |-> i, id |-> choice.tool_calls[1][k]]]

\* for (i, choice) in resp.choices.iter().enumerate() { .. }, from choice i on
RECURSIVE ChoicesLoop(_, _, _)
ChoicesLoop(choices, i, acc) ==
    IF i >= Len(choices) THEN acc
    ELSE LET choice == choices[i + 1]
         IN ChoicesLoop(choices, i + 1,
                [text_blocks |-> acc.text_blocks \o TextBlocksOf(choice, i),
                 tool_blocks |-> acc.tool_blocks \o ToolBlocksOf(choice, i),
                 stop_reason |-> StopReasonAfter(acc.stop_reason, i, choice.finish_reason)])

\* let (input_tokens, output_tokens, cache_read) = match &resp.usage { .. }
AnthropicUsage(usage) ==
    IF usage = <<>>
    THEN [input_tokens |-> 0, output_tokens |-> 0, cache_read_input_tokens |-> <<>>]
    ELSE LET u == usage[1]
             cached == IF u.cached_tokens = <<>> THEN 0 ELSE u.cached_tokens[1]
         IN [input_tokens |-> saturating_sub(u.prompt_tokens, cached),
             output_tokens |-> u.completion_tokens,
             cache_read_input_tokens |-> IF cached > 0 THEN <<cached>> ELSE <<>>]

\* (mutant: the tool blocks are put before the text blocks)
TranslateResponseToolsFirst(resp) ==
    LET done == ChoicesLoop(resp.choices, 0,
                    [text_blocks |-> <<>>, tool_blocks |-> <<>>, stop_reason |-> <<>>])
    IN [type |-> "message",
        role |-> "assistant",
        content |-> done.tool_blocks \o done.text_blocks,
        stop_reason |-> done.stop_reason,
        stop_sequence |-> <<>>,
        usage |-> AnthropicUsage(resp.usage)]

\* translate_response
translate_response(resp) ==
    LET done == ChoicesLoop(resp.choices, 0,
                    [text_blocks |-> <<>>, tool_blocks |-> <<>>, stop_reason |-> <<>>])
    IN [type |-> "message",
        role |-> "assistant",
        content |-> done.text_blocks \o done.tool_blocks,
        stop_reason |-> done.stop_reason,
        stop_sequence |-> <<>>,
        usage |-> AnthropicUsage(resp.usage)]

NoMessagesResponse ==
    [type |-> "none", role |-> "none", content |-> <<>>, stop_reason |-> <<>>,
     stop_sequence |-> <<>>, usage |-> AnthropicUsage(<<>>)]

MaxChoices == 2

ResponseFinishReasons ==
    {<<>>, <<"stop">>, <<"length">>, <<"tool_calls">>, <<"content_filter">>,
     <<"function_call">>}

Choices ==
    [content : {<<>>, <<"">>, <<"text">>},
     tool_calls : {<<>>, <<<<"call_1">>>>},
     finish_reason : ResponseFinishReasons]

Usages ==
    {<<>>} \cup {<<[prompt_tokens |-> 5, completion_tokens |-> 2, cached_tokens |-> c]>> :
                    c \in {<<>>, <<0>>, <<3>>, <<7>>}}

ChatCompletionResponses == [choices : SeqsUpTo(Choices, MaxChoices), usage : Usages]

ResponseInit ==
    /\ rp_resp \in ChatCompletionResponses
    /\ rp_out = NoMessagesResponse
    /\ rp_pc = "received"

ResponseIdle ==
    /\ rp_resp = [choices |-> <<>>, usage |-> <<>>]
    /\ rp_out = NoMessagesResponse
    /\ rp_pc = "idle"

\* handle_non_streaming: let anthropic_resp = translate_response(&openai_resp)
TranslateResponse ==
    /\ rp_pc = "received"
    /\ rp_out' = translate_response(rp_resp)
    /\ rp_pc' = "translated"
    /\ UNCHANGED rp_resp
    /\ UNCHANGED notResponse

ResponseNext == TranslateResponse

(***************************************************************************)
(* The read loop of handle_streaming (routes/messages.rs 223-267).  A      *)
(* payload is what extract_next_sse_data returns: "[DONE]", a chunk, or    *)
(* text that does not parse as one; each is known by the network chunk     *)
(* that completed it and its position there.                               *)
(***************************************************************************)
MaxNetChunks == 2
MaxPayloads == 2

PayloadKinds == {"chunk", "[DONE]", "unparsable"}

\* The inner loop, while let Some(event_data) = extract_next_sse_data(..):
\* "[DONE]" breaks out of it, an unparsable payload is skipped, a chunk is
\* translated.  What is left in the buffer, what was translated, and
\* whether "[DONE]" was met.
RECURSIVE DrainBuffer(_, _, _)
DrainBuffer(buf, translated, done) ==
    IF buf = <<>> THEN [buffer |-> <<>>, translated |-> translated, done |-> done]
    ELSE IF Head(buf).kind = "[DONE]"
         THEN [buffer |-> Tail(buf), translated |-> translated, done |-> TRUE]
         ELSE IF Head(buf).kind = "unparsable"
              THEN DrainBuffer(Tail(buf), translated, done)
              ELSE DrainBuffer(Tail(buf), Append(translated, Head(buf).id), done)

NetChunk(kinds, n) == [k \in 1..Len(kinds) |-> [kind |-> kinds[k], id |-> <<n, k>>]]

Upstreams ==
    {[n \in 1..Len(chunks) |-> NetChunk(chunks[n], n)] :
        chunks \in SeqsUpTo(SeqsUpTo(PayloadKinds, MaxPayloads), MaxNetChunks)}

ReadInit ==
    /\ rd_upstream \in Upstreams
    /\ rd_buffer = <<>>
    /\ rd_translated = <<>>
    /\ rd_done = FALSE
    /\ rd_after_done = <<>>
    /\ rd_pc = "reading"

ReadIdle ==
    /\ rd_upstream = <<>>
    /\ rd_buffer = <<>>
    /\ rd_translated = <<>>
    /\ rd_done = FALSE
    /\ rd_after_done = <<>>
    /\ rd_pc = "idle"

\* One turn of the outer loop: bytes_stream.next() gives a chunk, it is
\* appended to the buffer and the inner loop runs.
ReadChunk ==
    /\ rd_pc = "reading"
    /\ rd_upstream # <<>>
    /\ LET after == DrainBuffer(rd_buffer \o Head(rd_upstream), <<>>, FALSE)
       IN /\ rd_buffer' = after.buffer
          /\ rd_translated' = rd_translated \o after.translated
          /\ rd_after_done' = IF rd_done THEN rd_after_done \o after.translated
                              ELSE rd_after_done
          /\ rd_done' = (rd_done \/ after.done)
    /\ rd_upstream' = Tail(rd_upstream)
    /\ UNCHANGED rd_pc
    /\ UNCHANGED notRead

\* bytes_stream.next() gives an error: break, then the flush
ReadFails ==
    /\ rd_pc = "reading"
    /\ rd_upstream # <<>>
    /\ rd_pc' = "flushed"
    /\ UNCHANGED <<rd_upstream, rd_buffer, rd_translated, rd_done, rd_after_done>>
    /\ UNCHANGED notRead

\* bytes_stream.next() gives None: the loop ends, then the flush
ReadEnds ==
    /\ rd_pc = "reading"
    /\ rd_upstream = <<>>
    /\ rd_pc' = "flushed"
    /\ UNCHANGED <<rd_upstream, rd_buffer, rd_translated, rd_done, rd_after_done>>
    /\ UNCHANGED notRead

ReadNext ==
    \/ ReadChunk
    \/ ReadFails
    \/ ReadEnds

(***************************************************************************)
(* The stream translator with thinking emulation.  The text path of        *)
(* translate_chunk that feeds the parser is not among the source files     *)
(* (translate_chunk as given sends the text as it is); it is modelled      *)
(* after the specification, 4.6: "text deltas are fed into the parser, and *)
(* the parser's emitted events are translated into the appropriate         *)
(* Anthropic content blocks (text blocks or thinking blocks,               *)
(* opening/closing as the mode switches)".  The parser is the one of       *)
(* thinking.rs, the flush the one of routes/messages.rs.                   *)
(***************************************************************************)
BlockEvent(type, index, kind, text) ==
    [type |-> type, index |-> index, kind |-> kind, text |-> text]

\* A delta sent in the block at st.index: joined to the delta before it when
\* that one is of the same block and kind.
SendDelta(st, kind, text) ==
    LET n == Len(st.log)
    IN IF n > 0 /\ st.log[n].type = "content_block_delta"
                /\ st.log[n].index = st.index /\ st.log[n].kind = kind
       THEN [st EXCEPT !.log[n].text = @ \o text]
       ELSE [st EXCEPT !.log = Append(@, BlockEvent("content_block_delta", st.index, kind, text))]

\* content_block_stop for the open block, content_block_index += 1
StopOpenBlock(st) ==
    IF st.open = "none" THEN st
    ELSE [st EXCEPT !.log = Append(@, BlockEvent("content_block_stop", st.index, st.open, <<>>)),
                    !.index = @ + 1,
                    !.open = "none"]

\* content_block_start for a block of a kind
StartBlock(st, kind) ==
    [st EXCEPT !.log = Append(@, BlockEvent("content_block_start", st.index, kind, <<>>)),
               !.open = kind]

\* (mutant: ThinkingEnd leaves the thinking block open)
ThinkingEventKeepsBlock(st, e) ==
    CASE e.kind = "ThinkingStart" -> StartBlock(StopOpenBlock(st), "thinking")
      [] e.kind = "ThinkingDelta" -> SendDelta(st, "thinking_delta", e.text)
      [] e.kind = "ThinkingEnd" -> st
      [] OTHER -> SendDelta(IF st.open = "none" THEN StartBlock(st, "text") ELSE st,
                            "text_delta", e.text)

\* One event of the parser translated
ThinkingEventStep(st, e) ==
    CASE e.kind = "ThinkingStart" -> StartBlock(StopOpenBlock(st), "thinking")
      [] e.kind = "ThinkingDelta" -> SendDelta(st, "thinking_delta", e.text)
      [] e.kind = "ThinkingEnd" -> StopOpenBlock(st)
      [] OTHER -> SendDelta(IF st.open = "none" THEN StartBlock(st, "text") ELSE st,
                            "text_delta", e.text)

RECURSIVE ThinkingEventsLoop(_, _)
ThinkingEventsLoop(st, evs) ==
    IF evs = <<>> THEN st
    ELSE ThinkingEventsLoop(ThinkingEventStep(st, Head(evs)), Tail(evs))

\* The flush after the read loop (routes/messages.rs 271-303): the event of
\* finish() sent as a delta at content_block_index
FlushDelta(final, index) ==
    IF final = <<>> THEN <<>>
    ELSE IF final[1].kind = "ThinkingDelta"
         THEN <<BlockEvent("content_block_delta", index, "thinking_delta", final[1].text)>>
         ELSE IF final[1].kind = "TextDelta"
              THEN <<BlockEvent("content_block_delta", index, "text_delta", final[1].text)>>
              ELSE <<>>

\* What the streamed texts are built from: both tags, a plain text and a
\* two-byte character
StreamSegments == {OPEN_TAG, CLOSE_TAG, <<"a", "b", "c", "d", "e", "f", "g">>, <<"U2">>}

StreamTexts == {Flatten(ss) : ss \in SeqsUpTo(StreamSegments, MaxSegs)}

ThinkStreamInit ==
    /\ input \in StreamTexts
    /\ pushed = 0
    /\ buffer = <<>>
    /\ in_thinking = FALSE
    /\ th_out = <<>>
    /\ th_pc = "pushing"
    /\ split_seen = FALSE
    /\ ts_index = 0
    /\ ts_open = "none"
    /\ ts_log = <<>>
    /\ ts_flush = <<>>
    /\ ts_pc = "reading"

ThinkStreamIdle ==
    /\ ts_index = 0
    /\ ts_open = "none"
    /\ ts_log = <<>>
    /\ ts_flush = <<>>
    /\ ts_pc = "idle"

\* A chunk whose delta.content is the next n characters of the text: pushed
\* to the parser, the events translated.  A panic of push ends the response.
TextDeltaChunk(n) ==
    /\ ts_pc = "reading"
    /\ pushed + n <= Len(input)
    /\ LET r == ParserPush(buffer, in_thinking, SubSeq(input, pushed + 1, pushed + n))
           st == ThinkingEventsLoop([index |-> ts_index, open |-> ts_open, log |-> ts_log],
                                    r.events)
       IN /\ buffer' = r.buffer
          /\ in_thinking' = r.in_thinking
          /\ th_pc' = IF r.panicked THEN "panicked" ELSE th_pc
          /\ ts_pc' = IF r.panicked THEN "panicked" ELSE ts_pc
          /\ th_out' = IF r.panicked THEN th_out ELSE Coalesce(th_out, r.events)
          /\ ts_index' = IF r.panicked THEN ts_index ELSE st.index
          /\ ts_open' = IF r.panicked THEN ts_open ELSE st.open
          /\ ts_log' = IF r.panicked THEN ts_log ELSE st.log
    /\ pushed' = pushed + n
    /\ split_seen' = (split_seen \/ TagSplitAt(input, pushed + n))
    /\ UNCHANGED <<input, ts_flush>>
    /\ UNCHANGED notThinkNorThinkStream

\* The upstream closes: state.thinking_parser.take(), parser.finish(), the
\* event sent as a delta
ThinkStreamClose ==
    /\ ts_pc = "reading"
    /\ ts_flush' = FlushDelta(ParserFinish(buffer, in_thinking), ts_index)
    /\ buffer' = <<>>
    /\ th_pc' = "finished"
    /\ ts_pc' = "closed"
    /\ UNCHANGED <<input, pushed, in_thinking, th_out, split_seen>>
    /\ UNCHANGED <<ts_index, ts_open, ts_log>>
    /\ UNCHANGED notThinkNorThinkStream

ThinkStreamNext ==
    \/ \E n \in 1..MaxChunkLen : TextDeltaChunk(n)
    \/ ThinkStreamClose

(***************************************************************************)
(* Model list cache: AppState.models and the get_models handler.  The time *)
(* is the wall clock (SystemTime), which may be set forward or back        *)
(* between any two steps.  A model of the list is known by its id.         *)
(***************************************************************************)
MODELS_CACHE_TTL == 3600
STATUS_OK == 200
BAD_GATEWAY == 502
SERVICE_UNAVAILABLE == 503

MaxModels == 2

\* The times the clock may read
ClockTimes == {0, 1800, 3600, 5400}

ModelIds == {claude_sonnet_4dot5, gpt_4dot1}
ModelLists == SeqsUpTo(ModelIds, MaxModels)

ModelCustomMaps == {<<>>, [u \in {gpt_4dot1} |-> my_sonnet]}

Renamers ==
    {[auto_enabled |-> a, custom_forward |-> c, learned_reverse |-> <<>>] :
        a \in BOOLEAN, c \in ModelCustomMaps}

CachedModels(response, cached_at) == [response |-> response, cached_at |-> cached_at]

\* SystemTime::elapsed: Ok(t - earlier), Err when the clock reads earlier
elapsed(earlier, t) == IF t >= earlier THEN <<t - earlier>> ELSE <<>>

\* (mutant: a list exactly as old as the TTL still counts as valid)
ModelsCacheValidInclusive(cached, t) ==
    /\ elapsed(cached.cached_at, t) # <<>>
    /\ elapsed(cached.cached_at, t)[1] <= MODELS_CACHE_TTL

\* AppState::is_models_cache_valid:
\* cached_at.elapsed().map(|elapsed| elapsed < ttl).unwrap_or(false)
is_models_cache_valid(cached, t) ==
    /\ elapsed(cached.cached_at, t) # <<>>
    /\ elapsed(cached.cached_at, t)[1] < MODELS_CACHE_TTL

\* for model in &mut models.data { renamed = rename(id); register(id, renamed);
\*                                 if renamed != id { model.id = renamed } }
RECURSIVE RenameLoop(_, _, _)
RenameLoop(renamer, data, k) ==
    IF k > Len(data)
    THEN [renamer |-> renamer, data |-> data]
    ELSE LET renamed == rename(renamer.custom_forward, renamer.auto_enabled, data[k])
             learned == register(renamer.learned_reverse, data[k], renamed)
         IN RenameLoop([renamer EXCEPT !.learned_reverse = learned],
                       [data EXCEPT ![k] = renamed], k + 1)

\* Json(models) or Json(to_anthropic_format(models)): the ids, in order
ModelsJson(response, is_anthropic) ==
    [status |-> STATUS_OK, data |-> response,
     format |-> IF is_anthropic THEN "anthropic" ELSE "openai"]

ModelsError(status, error_type) == [status |-> status, data |-> <<>>, format |-> error_type]

NoModelsResponse == [status |-> 0, data |-> <<>>, format |-> "none"]

NoModelsRequest ==
    [gh_token |-> <<>>, at |-> 0, seen_cached_at |-> <<>>, fetched |-> <<>>,
     written_at |-> 0]

\* AppState::new and ModelRenamer::from_env
ModelsInit ==
    /\ md_clock \in ClockTimes
    /\ models = <<>>
    /\ md_renamer \in Renamers
    /\ md_default \in DefaultTokens
    /\ md_req = NoModelsRequest
    /\ md_calls = 0
    /\ md_ret = NoModelsResponse
    /\ md_pc = "idle"

ModelsIdle ==
    /\ md_clock = 0
    /\ models = <<>>
    /\ md_renamer = [auto_enabled |-> FALSE, custom_forward |-> <<>>, learned_reverse |-> <<>>]
    /\ md_default = <<>>
    /\ md_req = NoModelsRequest
    /\ md_calls = 0
    /\ md_ret = NoModelsResponse
    /\ md_pc = "idle"

\* The clock reads another time: time has passed, or the clock was set.  The
\* handler reads the clock when it looks at the cache and when it writes it,
\* so a change is told apart only before a request and before the write.
ClockStep(t) ==
    /\ md_pc \in {"fetch", "done"}
    /\ t # md_clock
    /\ md_clock' = t
    /\ UNCHANGED <<models, md_renamer, md_default, md_req, md_calls, md_ret, md_pc>>
    /\ UNCHANGED notModels

\* get_models up to its first upstream call: the cached list when it is valid,
\* 503 when no GitHub token comes with the request or from the environment.
\* (While the request goes on, md_ret.format holds the envelope asked for.)
GetModels(is_anthropic, extracted) ==
    LET gh_token == HeaderOrDefault(extracted, md_default)
        req == [gh_token |-> gh_token, at |-> md_clock,
                seen_cached_at |-> IF models = <<>> THEN <<>> ELSE <<models[1].cached_at>>,
                fetched |-> <<>>, written_at |-> md_clock]
    IN /\ md_pc \in {"idle", "done"}
       /\ md_req' = req
       /\ md_calls' = 0
       /\ IF models # <<>> /\ is_models_cache_valid(models[1], md_clock)
          THEN /\ md_ret' = ModelsJson(models[1].response, is_anthropic)
               /\ md_pc' = "done"
          ELSE IF gh_token = <<>>
               THEN /\ md_ret' = ModelsError(SERVICE_UNAVAILABLE, "unavailable")
                    /\ md_pc' = "done"
               ELSE /\ md_ret' = [NoModelsResponse EXCEPT
                                      !.format = IF is_anthropic THEN "anthropic" ELSE "openai"]
                    /\ md_pc' = "token"
       /\ UNCHANGED <<md_clock, models, md_renamer, md_default>>
       /\ UNCHANGED notModels

\* token_cache.get_copilot_token gives a token, from its cache or by one exchange
ModelsTokenOk(exchanges) ==
    /\ md_pc = "token"
    /\ md_calls' = md_calls + exchanges
    /\ md_pc' = "fetch"
    /\ UNCHANGED <<md_clock, models, md_renamer, md_default, md_req, md_ret>>
    /\ UNCHANGED notModels

\* the exchange fails: 401
ModelsTokenErr ==
    /\ md_pc = "token"
    /\ md_calls' = md_calls + 1
    /\ md_ret' = ModelsError(UNAUTHORIZED, "authentication_error")
    /\ md_pc' = "done"
    /\ UNCHANGED <<md_clock, models, md_renamer, md_default, md_req>>
    /\ UNCHANGED notModels

\* fetch_models gives the list: renamed, registered, cached and returned
FetchModelsOk(data) ==
    LET done == RenameLoop(md_renamer, data, 1)
    IN /\ md_pc = "fetch"
       /\ md_calls' = md_calls + 1
       /\ md_renamer' = done.renamer
       /\ models' = <<CachedModels(done.data, md_clock)>>
       /\ md_ret' = ModelsJson(done.data, md_ret.format = "anthropic")
       /\ md_req' = [md_req EXCEPT !.fetched = <<data>>, !.written_at = md_clock]
       /\ md_pc' = "done"
       /\ UNCHANGED <<md_clock, md_default>>
       /\ UNCHANGED notModels

\* fetch_models fails: 502
FetchModelsErr ==
    /\ md_pc = "fetch"
    /\ md_calls' = md_calls + 1
    /\ md_ret' = ModelsError(BAD_GATEWAY, "api_error")
    /\ md_pc' = "done"
    /\ UNCHANGED <<md_clock, models, md_renamer, md_default, md_req>>
    /\ UNCHANGED notModels

ModelsNext ==
    \/ \E t \in ClockTimes : ClockStep(t)
    \/ \E is_anthropic \in BOOLEAN, extracted \in {<<>>, <<<<"g", "h", "p", "_", "a">>>>} :
          GetModels(is_anthropic, extracted)
    \/ \E exchanges \in {0, 1} : ModelsTokenOk(exchanges)
    \/ ModelsTokenErr
    \/ \E data \in ModelLists : FetchModelsOk(data)
    \/ FetchModelsErr

(***************************************************************************)
(* replace_version_dots and auto_rename, applied to any short name with    *)
(* and without the "claude-" prefix.  "U2" is a character that is not      *)
(* ASCII.                                                                  *)
(***************************************************************************)
MaxNameLen == 5

NameChars == {"4", "v", ".", "-", "U2"}

DotNames == {p \o s : p \in {<<>>, CLAUDE_PREFIX}, s \in SeqsUpTo(NameChars, MaxNameLen)}

DotsInit ==
    /\ dt_name \in DotNames
    /\ dt_dashed = <<>>
    /\ dt_renamed = <<>>
    /\ dt_done = {}

DotsIdle ==
    /\ dt_name = <<>>
    /\ dt_dashed = <<>>
    /\ dt_renamed = <<>>
    /\ dt_done = {}

ReplaceVersionDots ==
    /\ "replace_version_dots" \notin dt_done
    /\ dt_dashed' = replace_version_dots(dt_name)
    /\ dt_done' = dt_done \cup {"replace_version_dots"}
    /\ UNCHANGED <<dt_name, dt_renamed>>
    /\ UNCHANGED notDots

AutoRename ==
    /\ "auto_rename" \notin dt_done
    /\ dt_renamed' = auto_rename(dt_name)
    /\ dt_done' = dt_done \cup {"auto_rename"}
    /\ UNCHANGED <<dt_name, dt_dashed>>
    /\ UNCHANGED notDots

DotsNext ==
    \/ ReplaceVersionDots
    \/ AutoRename

(***************************************************************************)
(* A streamed tool call: one chunk that introduces tool call 0 with its id *)
(* and name, chunks that carry arguments only, and the chunk with the      *)
(* finish_reason, each translated by translate_chunk and its events sent;  *)
(* then the upstream closes and the parser, which was fed nothing, is      *)
(* flushed.                                                                *)
(***************************************************************************)
MaxArgumentChunks == 3

ToolCallIds == {"call_1", "call_2"}
FunctionNames == {"f"}
ArgumentTexts == {"", "{\"a\":", "1}"}

ChunkOf(calls, finish_reason) ==
    [choices |-> <<[delta |-> [content |-> "None", tool_calls |-> calls],
                   finish_reason |-> finish_reason]>>]

IntroducingChunk(id, name) ==
    ChunkOf(<<[index |-> 0, id |-> <<id>>, name |-> <<name>>, arguments |-> <<>>]>>, "None")

ArgumentsChunk(arguments) ==
    ChunkOf(<<[index |-> 0, id |-> <<>>, name |-> <<>>, arguments |-> <<arguments>>]>>, "None")

FinishChunk(finish_reason) == ChunkOf(<<>>, finish_reason)

ToolStreams ==
    {<<IntroducingChunk(id, name)>>
        \o [k \in 1..Len(args) |-> ArgumentsChunk(args[k])]
        \o <<FinishChunk("tool_calls")>> :
            id \in ToolCallIds, name \in FunctionNames,
            args \in SeqsUpTo(ArgumentTexts, MaxArgumentChunks)}

ToolStreamInit ==
    /\ tl_stream \in ToolStreams
    /\ tl_read = 0
    /\ tl_state = NewStreamState
    /\ tl_sent = <<>>
    /\ tl_pc = "reading"

ToolStreamIdle ==
    /\ tl_stream = <<>>
    /\ tl_read = 0
    /\ tl_state = NewStreamState
    /\ tl_sent = <<>>
    /\ tl_pc = "idle"

\* The next chunk is translated and its events are sent.
ToolStreamChunk ==
    /\ tl_pc = "reading"
    /\ tl_read < Len(tl_stream)
    /\ LET after == translate_chunk(tl_stream[tl_read + 1], [tl_state EXCEPT !.events = <<>>])
       IN /\ tl_state' = after
          /\ tl_sent' = tl_sent \o after.events
    /\ tl_read' = tl_read + 1
    /\ UNCHANGED <<tl_stream, tl_pc>>
    /\ UNCHANGED notToolStream

\* The upstream closes after the last chunk: the parser is flushed.
ToolStreamClose ==
    /\ tl_pc = "reading"
    /\ tl_read = Len(tl_stream)
    /\ tl_sent' = tl_sent \o FlushEvents("Some", <<>>, FALSE, tl_state.content_block_index)
    /\ tl_pc' = "closed"
    /\ UNCHANGED <<tl_stream, tl_read, tl_state>>
    /\ UNCHANGED notToolStream

ToolStreamNext ==
    \/ ToolStreamChunk
    \/ ToolStreamClose

(***************************************************************************)
(* TokenCache with several credentials.  Callers run get_copilot_token,    *)
(* refresh and evict_expired side by side; a call is cut where it awaits:  *)
(* the exchange with the upstream, and the write lock of evict_expired,    *)
(* which it asks for after it has read the clock.  A token is known by the *)
(* number of the exchange that issued it.                                  *)
(***************************************************************************)
MaxCacheTicks == 2
MaxCacheIssued == 2

CacheTickSecs == {60}
CacheCallers == {1, 2}
CacheGhTokens == {"gh_a", "gh_b"}

\* The lifetimes the upstream may answer with (expires_at - now), and its advice
CacheLifetimes == {60, 121, 181}
CacheRefreshIns == {1500}

CopilotTokenResponse(token, expires_at, refresh_in) ==
    [token |-> token, expires_at |-> expires_at, refresh_in |-> refresh_in]

NoTokenResponse == CopilotTokenResponse(0, 0, 0)

CacheReturn(result, copilot_token, refresh_in) ==
    [result |-> result, copilot_token |-> copilot_token, refresh_in |-> refresh_in]

NoCacheReturn == CacheReturn("none", 0, 0)

\* A call: the operation, its credential, where it stands, the answer of its
\* exchange, the time evict_expired has read and the number of entries it
\* has evicted; and the exchanges the call has made.
CacheCall(op, gh_token, pc) ==
    [op |-> op, gh_token |-> gh_token, pc |-> pc, resp |-> NoTokenResponse,
     now |-> 0, evicted |-> 0, exchanges |-> 0]

NoCacheCall == CacheCall("none", "none", "idle")

\* (mutant: any entry of the credential is returned, valid or not)
FastPathAnyEntry(cache, gh_token, t) ==
    IF gh_token \in DOMAIN cache THEN <<cache[gh_token].copilot_token>> ELSE <<>>

\* if let Some(entry) = cache.get(gh_token) { if entry.is_valid() { return Ok(..) } }
fast_path(cache, gh_token, t) ==
    IF gh_token \in DOMAIN cache /\ is_valid(cache[gh_token], t)
    THEN <<cache[gh_token].copilot_token>>
    ELSE <<>>

\* (mutant: only the entries that are valid are kept)
RetainValid(cache, t) ==
    [g \in {h \in DOMAIN cache : is_valid(cache[h], t)} |-> cache[g]]

\* cache.retain(|_, entry| entry.expires_at > now)
retain(cache, t) ==
    [g \in {h \in DOMAIN cache : cache[h].expires_at > t} |-> cache[g]]

\* (mutant: refresh returns the time left to the expiry)
RefreshReturnsLifetime(resp, t) == CacheReturn("Ok", 0, resp.expires_at - t)

\* let refresh_in = resp.refresh_in; ...; Ok(refresh_in)
refresh_return(resp, t) == CacheReturn("Ok", 0, resp.refresh_in)

CacheInit ==
    /\ cc_now = 0
    /\ cc_entries = <<>>
    /\ cc_issued = 0
    /\ cc_call = [c \in CacheCallers |-> NoCacheCall]
    /\ cc_ret = [c \in CacheCallers |-> NoCacheReturn]

CacheIdle ==
    /\ cc_now = 0
    /\ cc_entries = <<>>
    /\ cc_issued = 0
    /\ cc_call = <<>>
    /\ cc_ret = <<>>

\* get_copilot_token, fast path: read lock, check cache
GetCopilotToken(c, g) ==
    LET hit == fast_path(cc_entries, g, cc_now)
        call == CacheCall("get_copilot_token", g, IF hit # <<>> THEN "idle" ELSE "exchange")
    IN /\ cc_call[c].pc = "idle"
       /\ cc_call' = [cc_call EXCEPT ![c] = call]
       /\ cc_ret' = [cc_ret EXCEPT ![c] =
                        IF hit # <<>> THEN CacheReturn("Ok", hit[1], 0) ELSE NoCacheReturn]
       /\ UNCHANGED <<cc_now, cc_entries, cc_issued>>
       /\ UNCHANGED notCache

\* refresh: no look at the cache
Refresh(c, g) ==
    /\ cc_call[c].pc = "idle"
    /\ cc_call' = [cc_call EXCEPT ![c] = CacheCall("refresh", g, "exchange")]
    /\ cc_ret' = [cc_ret EXCEPT ![c] = NoCacheReturn]
    /\ UNCHANGED <<cc_now, cc_entries, cc_issued>>
    /\ UNCHANGED notCache

\* fetch_copilot_token answers with a new token, its expires_at and refresh_in
FetchCopilotTokenOk(c, lifetime, refresh_in) ==
    /\ cc_call[c].pc = "exchange"
    /\ cc_issued < MaxCacheIssued
    /\ cc_issued' = cc_issued + 1
    /\ cc_call' = [cc_call EXCEPT
                      ![c].resp = CopilotTokenResponse(cc_issued + 1, cc_now + lifetime,
                                                       refresh_in),
                      ![c].exchanges = @ + 1,
                      ![c].pc = "insert"]
    /\ UNCHANGED <<cc_now, cc_entries, cc_ret>>
    /\ UNCHANGED notCache

\* fetch_copilot_token(..).await? fails: the call returns the error
FetchCopilotTokenErr(c) ==
    /\ cc_call[c].pc = "exchange"
    /\ cc_call' = [cc_call EXCEPT ![c].exchanges = @ + 1, ![c].pc = "idle"]
    /\ cc_ret' = [cc_ret EXCEPT ![c] = CacheReturn("Err", 0, 0)]
    /\ UNCHANGED <<cc_now, cc_entries, cc_issued>>
    /\ UNCHANGED notCache

\* Write lock, cache.insert(gh_token, CachedToken { .. }); Ok(copilot_token)
\* from get_copilot_token, Ok(refresh_in) from refresh
CacheInsert(c) ==
    LET call == cc_call[c]
    IN /\ call.pc = "insert"
       /\ cc_entries' = Insert(cc_entries, call.gh_token,
                               CachedToken(call.resp.token, call.resp.expires_at))
       /\ cc_ret' = [cc_ret EXCEPT ![c] =
                        IF call.op = "refresh"
                        THEN refresh_return(call.resp, cc_now)
                        ELSE CacheReturn("Ok", call.resp.token, 0)]
       /\ cc_call' = [cc_call EXCEPT ![c].pc = "idle", ![c].resp = NoTokenResponse]
       /\ UNCHANGED <<cc_now, cc_issued>>
       /\ UNCHANGED notCache

\* evict_expired reads the clock, then asks for the write lock
EvictExpired(c) ==
    /\ cc_call[c].pc = "idle"
    /\ cc_call' = [cc_call EXCEPT ![c] =
                      [CacheCall("evict_expired", "none", "retain") EXCEPT !.now = cc_now]]
    /\ cc_ret' = [cc_ret EXCEPT ![c] = NoCacheReturn]
    /\ UNCHANGED <<cc_now, cc_entries, cc_issued>>
    /\ UNCHANGED notCache

\* evict_expired has the write lock: retain
EvictRetain(c) ==
    /\ cc_call[c].pc = "retain"
    /\ cc_entries' = retain(cc_entries, cc_call[c].now)
    /\ cc_call' = [cc_call EXCEPT
                      ![c].pc = "idle",
                      ![c].now = 0,
                      ![c].evicted = Cardinality(DOMAIN cc_entries)
                                         - Cardinality(DOMAIN cc_entries')]
    /\ cc_ret' = [cc_ret EXCEPT ![c] = CacheReturn("Unit", 0, 0)]
    /\ UNCHANGED <<cc_now, cc_issued>>
    /\ UNCHANGED notCache

\* The clock advances.
CacheTick(d) ==
    /\ cc_now + d <= MaxCacheTicks * 60
    /\ cc_now' = cc_now + d
    /\ UNCHANGED <<cc_entries, cc_issued, cc_call, cc_ret>>
    /\ UNCHANGED notCache

CacheNext ==
    \/ \E c \in CacheCallers, g \in CacheGhTokens : GetCopilotToken(c, g)
    \/ \E c \in CacheCallers, g \in CacheGhTokens : Refresh(c, g)
    \/ \E c \in CacheCallers, lifetime \in CacheLifetimes, refresh_in \in CacheRefreshIns :
          FetchCopilotTokenOk(c, lifetime, refresh_in)
    \/ \E c \in CacheCallers : FetchCopilotTokenErr(c)
    \/ \E c \in CacheCallers : CacheInsert(c)
    \/ \E c \in CacheCallers : EvictExpired(c)
    \/ \E c \in CacheCallers : EvictRetain(c)
    \/ \E d \in CacheTickSecs : CacheTick(d)

(***************************************************************************)
(* The locks.  TokenCache.entries (auth/cache.rs) and AppState.models      *)
(* (state.rs) are tokio RwLocks.  A task is at one line of one call; the   *)
(* lines where it awaits are the states, what it does between two awaits   *)
(* is a step.  What the maps hold is kept as one bit each: whether the     *)
(* entry of the credential is valid, whether the cached list is.           *)
(***************************************************************************)
MaxLockTasks == 2
LockTasks == 1..MaxLockTasks
LockNames == {"entries", "models"}
LockOps == {"get_copilot_token", "refresh", "evict_expired", "get_models",
            "ensure_models_cached"}

LockCall(op, gh_token, pc) == [op |-> op, gh_token |-> gh_token, pc |-> pc]
NoLockCall == LockCall("none", FALSE, "idle")

\* the lines at which a task awaits an upstream HTTP call
InFlight == {"fetch_copilot_token", "fetch_models"}
\* the lines at which a task awaits a lock
AwaitsRead == {"entries.read", "models.read"}
AwaitsWrite == {"entries.write", "models.write"}
\* the lines inside a guard's scope
ReadSection == {"entries.fast_path", "models.check"}
WriteSection == {"entries.insert", "entries.retain", "models.store"}

LockOf(pc) == IF pc \in {"entries.read", "entries.write", "entries.fast_path",
                         "entries.insert", "entries.retain"}
              THEN "entries" ELSE "models"

\* (mutant: the read guard lives to the end of the function)
GuardKept(holders, t) == holders

\* the end of the block in which the guard was bound
drop_guard(holders, t) == holders \ {t}

\* the first await of each call
FirstLine(op) ==
    CASE op = "get_copilot_token" -> "entries.read"
      [] op = "refresh" -> "fetch_copilot_token"
      [] op = "evict_expired" -> "entries.write"
      [] op = "get_models" -> "models.read"
      [] op = "ensure_models_cached" -> "models.read"

LocksInit ==
    /\ lk_call = [t \in LockTasks |-> NoLockCall]
    /\ lk_readers = [l \in LockNames |-> {}]
    /\ lk_writer = [l \in LockNames |-> {}]
    /\ lk_token_valid = FALSE
    /\ lk_models_valid = FALSE

LocksIdle ==
    /\ lk_call = <<>>
    /\ lk_readers = <<>>
    /\ lk_writer = <<>>
    /\ lk_token_valid = FALSE
    /\ lk_models_valid = FALSE

\* a task enters one of the calls; gh_token: the request or the server has a
\* credential (get_models only)
LockEnter(t, op, gh_token) ==
    /\ lk_call[t].pc = "idle"
    /\ gh_token = FALSE => op = "get_models"
    /\ lk_call' = [lk_call EXCEPT ![t] = LockCall(op, gh_token, FirstLine(op))]
    /\ UNCHANGED <<lk_readers, lk_writer, lk_token_valid, lk_models_valid>>
    /\ UNCHANGED notLocks

\* self.entries.read().await, state.models.read().await
ReadAcquire(t) ==
    LET pc == lk_call[t].pc
        l == LockOf(pc)
    IN /\ pc \in AwaitsRead
       /\ lk_writer[l] = {}
       /\ lk_readers' = [lk_readers EXCEPT ![l] = @ \cup {t}]
       /\ lk_call' = [lk_call EXCEPT ![t].pc =
                          IF l = "entries" THEN "entries.fast_path" ELSE "models.check"]
       /\ UNCHANGED <<lk_writer, lk_token_valid, lk_models_valid>>
       /\ UNCHANGED notLocks

\* self.entries.write().await, state.models.write().await
WriteAcquire(t) ==
    LET pc == lk_call[t].pc
        l == LockOf(pc)
    IN /\ pc \in AwaitsWrite
       /\ lk_writer[l] = {}
       /\ lk_readers[l] = {}
       /\ lk_writer' = [lk_writer EXCEPT ![l] = {t}]
       /\ lk_call' = [lk_call EXCEPT ![t].pc =
                          CASE l = "models" -> "models.store"
                            [] l = "entries" /\ lk_call[t].op = "evict_expired" -> "entries.retain"
                            [] OTHER -> "entries.insert"]
       /\ UNCHANGED <<lk_readers, lk_token_valid, lk_models_valid>>
       /\ UNCHANGED notLocks

\* get_copilot_token, cache.rs 52-60: the block of the fast path.  Its
\* caller get_models goes on to fetch_models with the token.
EntriesFastPath(t) ==
    /\ lk_call[t].pc = "entries.fast_path"
    /\ lk_readers' = [lk_readers EXCEPT !["entries"] = drop_guard(@, t)]
    /\ lk_call' = [lk_call EXCEPT ![t] =
                       IF lk_token_valid
                       THEN IF @.op = "get_models"
                            THEN LockCall(@.op, @.gh_token, "fetch_models")
                            ELSE NoLockCall
                       ELSE LockCall(@.op, @.gh_token, "fetch_copilot_token")]
    /\ UNCHANGED <<lk_writer, lk_token_valid, lk_models_valid>>
    /\ UNCHANGED notLocks

\* get_models, models.rs 18-59, and ensure_models_cached, messages.rs
\* 357-365: the block of the cache check, and in get_models the credential
EntriesOrModelsNext(call) ==
    IF call.op = "ensure_models_cached"
    THEN LockCall(call.op, call.gh_token, "fetch_models")
    ELSE IF call.gh_token
         THEN LockCall(call.op, call.gh_token, "entries.read")
         ELSE NoLockCall

ModelsCheck(t) ==
    /\ lk_call[t].pc = "models.check"
    /\ lk_readers' = [lk_readers EXCEPT !["models"] = drop_guard(@, t)]
    /\ lk_call' = [lk_call EXCEPT ![t] =
                       IF lk_models_valid THEN NoLockCall ELSE EntriesOrModelsNext(@)]
    /\ UNCHANGED <<lk_writer, lk_token_valid, lk_models_valid>>
    /\ UNCHANGED notLocks

\* fetch_copilot_token(...).await returned Ok
ExchangeReturnsOk(t) ==
    /\ lk_call[t].pc = "fetch_copilot_token"
    /\ lk_call' = [lk_call EXCEPT ![t].pc = "entries.write"]
    /\ UNCHANGED <<lk_readers, lk_writer, lk_token_valid, lk_models_valid>>
    /\ UNCHANGED notLocks

\* fetch_copilot_token(...).await? returned Err: every caller returns
ExchangeReturnsErr(t) ==
    /\ lk_call[t].pc = "fetch_copilot_token"
    /\ lk_call' = [lk_call EXCEPT ![t] = NoLockCall]
    /\ UNCHANGED <<lk_readers, lk_writer, lk_token_valid, lk_models_valid>>
    /\ UNCHANGED notLocks

\* cache.insert(...) and the end of the function, cache.rs 72-81 and 95-104;
\* the token that was exchanged may be valid or not
EntriesInsert(t, valid) ==
    /\ lk_call[t].pc = "entries.insert"
    /\ lk_token_valid' = valid
    /\ lk_writer' = [lk_writer EXCEPT !["entries"] = drop_guard(@, t)]
    /\ lk_call' = [lk_call EXCEPT ![t] =
                       IF @.op = "get_models"
                       THEN LockCall(@.op, @.gh_token, "fetch_models")
                       ELSE NoLockCall]
    /\ UNCHANGED <<lk_readers, lk_models_valid>>
    /\ UNCHANGED notLocks

\* cache.retain(...) and the end of evict_expired, cache.rs 115-122: a valid
\* entry is kept
EntriesRetain(t) ==
    /\ lk_call[t].pc = "entries.retain"
    /\ lk_writer' = [lk_writer EXCEPT !["entries"] = drop_guard(@, t)]
    /\ lk_call' = [lk_call EXCEPT ![t] = NoLockCall]
    /\ UNCHANGED <<lk_readers, lk_token_valid, lk_models_valid>>
    /\ UNCHANGED notLocks

\* fetch_models(...).await returned Ok; the rename loop takes no tokio lock
ModelsReturnsOk(t) ==
    /\ lk_call[t].pc = "fetch_models"
    /\ lk_call' = [lk_call EXCEPT ![t].pc = "models.write"]
    /\ UNCHANGED <<lk_readers, lk_writer, lk_token_valid, lk_models_valid>>
    /\ UNCHANGED notLocks

\* fetch_models(...).await returned Err
ModelsReturnsErr(t) ==
    /\ lk_call[t].pc = "fetch_models"
    /\ lk_call' = [lk_call EXCEPT ![t] = NoLockCall]
    /\ UNCHANGED <<lk_readers, lk_writer, lk_token_valid, lk_models_valid>>
    /\ UNCHANGED notLocks

\* *state.models.write().await = Some(CachedModels {...}): the guard is a
\* temporary of the statement
ModelsStore(t) ==
    /\ lk_call[t].pc = "models.store"
    /\ lk_models_valid' = TRUE
    /\ lk_writer' = [lk_writer EXCEPT !["models"] = drop_guard(@, t)]
    /\ lk_call' = [lk_call EXCEPT ![t] = NoLockCall]
    /\ UNCHANGED <<lk_readers, lk_token_valid>>
    /\ UNCHANGED notLocks

\* time passes: the token comes within 120 seconds of its expiry
TokenExpires ==
    /\ lk_token_valid
    /\ lk_token_valid' = FALSE
    /\ UNCHANGED <<lk_call, lk_readers, lk_writer, lk_models_valid>>
    /\ UNCHANGED notLocks

\* time passes: the list becomes older than the TTL
ModelsExpire ==
    /\ lk_models_valid
    /\ lk_models_valid' = FALSE
    /\ UNCHANGED <<lk_call, lk_readers, lk_writer, lk_token_valid>>
    /\ UNCHANGED notLocks

LocksNext ==
    \/ \E t \in LockTasks, op \in LockOps, gh_token \in BOOLEAN : LockEnter(t, op, gh_token)
    \/ \E t \in LockTasks : ReadAcquire(t)
    \/ \E t \in LockTasks : WriteAcquire(t)
    \/ \E t \in LockTasks : EntriesFastPath(t)
    \/ \E t \in LockTasks : ModelsCheck(t)
    \/ \E t \in LockTasks : ExchangeReturnsOk(t)
    \/ \E t \in LockTasks : ExchangeReturnsErr(t)
    \/ \E t \in LockTasks, valid \in BOOLEAN : EntriesInsert(t, valid)
    \/ \E t \in LockTasks : EntriesRetain(t)
    \/ \E t \in LockTasks : ModelsReturnsOk(t)
    \/ \E t \in LockTasks : ModelsReturnsErr(t)
    \/ \E t \in LockTasks : ModelsStore(t)
    \/ TokenExpires
    \/ ModelsExpire

(***************************************************************************)
(* The renamer shared by the request handlers.  learned_reverse is a       *)
(* std::sync::RwLock: register inserts under the write guard, resolve      *)
(* reads under the read guard, each guard a temporary of one statement.    *)
(* register is called as the handlers call it, with an upstream name and   *)
(* its rename.                                                             *)
(***************************************************************************)
RenameThreads == {1, 2}

claude_4dot5_sonnet ==
    <<"c", "l", "a", "u", "d", "e", "-", "4", ".", "5", "-", "s", "o", "n", "n", "e", "t">>

LearnedUpstreamIds == {claude_sonnet_4dot5, claude_4dot5_sonnet, claude_sonnet_4_5}
LearnedCustomMaps == {<<>>, [u \in {claude_sonnet_4} |-> claude_sonnet_4_5]}
LearnedRenamers ==
    {[auto_enabled |-> a, custom_forward |-> c, custom_reverse |-> r] :
        a \in BOOLEAN, c \in LearnedCustomMaps, r \in UNION {ReverseMaps(m) : m \in LearnedCustomMaps}}
\* the names a client may ask to resolve
LearnedDisplayNames == {claude_sonnet_4_5}

RenamerCall(op, upstream_name, display_name, pc) ==
    [op |-> op, upstream_name |-> upstream_name, display_name |-> display_name, pc |-> pc]
NoRenamerCall == RenamerCall("none", <<>>, <<>>, "idle")

\* what a resolve returned, with what held when it was called: the value a
\* resolve would have returned then, the upstream names of the register calls
\* for this display name that ran while it ran, and the upstream name of the
\* last register call for it if that call had returned and none has run since
ResolveReturn(display_name, value, before, during, settled) ==
    [display_name |-> display_name, value |-> value, before |-> before,
     during |-> during, settled |-> settled]

\* the register calls for a display name that have begun and not returned
RegistersInFlight(display_name) ==
    {t \in RenameThreads : lr_call[t].op = "register" /\ lr_call[t].display_name = display_name}

\* a register call for display_name begins: every resolve of that name that
\* has begun and not returned runs concurrently with it
Overlapped(calls, upstream_name, display_name) ==
    [t \in RenameThreads |->
        IF calls[t].op = "resolve" /\ calls[t].display_name = display_name
        THEN [calls[t] EXCEPT !.during = @ \cup {upstream_name}, !.settled = <<>>]
        ELSE calls[t]]

LearnedInit ==
    /\ lr_renamer \in LearnedRenamers
    /\ lr_renamer.custom_reverse \in ReverseMaps(lr_renamer.custom_forward)
    /\ lr_learned = <<>>
    /\ lr_writer = {}
    /\ lr_call = [t \in RenameThreads |-> NoRenamerCall]
    /\ lr_latest = [d \in LearnedDisplayNames |-> <<>>]
    /\ lr_ret = <<>>

LearnedIdle ==
    /\ lr_renamer = <<>>
    /\ lr_learned = <<>>
    /\ lr_writer = {}
    /\ lr_call = <<>>
    /\ lr_latest = <<>>
    /\ lr_ret = <<>>

\* register(&model.id, &renamed) with renamed == model.id: rename.rs 158,
\* nothing is done
RegisterSame(t, u) ==
    LET d == rename(lr_renamer.custom_forward, lr_renamer.auto_enabled, u)
    IN /\ lr_call[t].pc = "idle"
       /\ u = d
       /\ lr_call' = Overlapped(lr_call, u, d)
       /\ lr_latest' = [lr_latest EXCEPT ![d] = <<u>>]
       /\ UNCHANGED <<lr_renamer, lr_learned, lr_writer, lr_ret>>
       /\ UNCHANGED notLearned

\* register(&model.id, &renamed) with another name: up to .write()
RegisterBegin(t, u) ==
    LET d == rename(lr_renamer.custom_forward, lr_renamer.auto_enabled, u)
    IN /\ lr_call[t].pc = "idle"
       /\ u # d
       /\ lr_call' = [Overlapped(lr_call, u, d) EXCEPT
                         ![t] = RenamerCall("register", u, d, "write")]
       /\ UNCHANGED <<lr_renamer, lr_learned, lr_writer, lr_latest, lr_ret>>
       /\ UNCHANGED notLearned

\* self.learned_reverse.write().unwrap()
RegisterLock(t) ==
    /\ lr_call[t].pc = "write"
    /\ lr_writer = {}
    /\ lr_writer' = {t}
    /\ lr_call' = [lr_call EXCEPT ![t].pc = "insert"]
    /\ UNCHANGED <<lr_renamer, lr_learned, lr_latest, lr_ret>>
    /\ UNCHANGED notLearned

\* .insert(display_name, upstream_name); the guard is dropped at the end of
\* the statement and register returns
RegisterInsert(t) ==
    /\ lr_call[t].pc = "insert"
    /\ lr_learned' = register(lr_learned, lr_call[t].upstream_name, lr_call[t].display_name)
    /\ lr_writer' = {}
    /\ lr_latest' = [lr_latest EXCEPT ![lr_call[t].display_name] = <<lr_call[t].upstream_name>>]
    /\ lr_call' = [lr_call EXCEPT ![t] = NoRenamerCall]
    /\ UNCHANGED <<lr_renamer, lr_ret>>
    /\ UNCHANGED notLearned

\* resolve(display_name) is called: what holds at this moment
ResolveCalled(d) ==
    ResolveReturn(d, <<>>, resolve(lr_renamer.custom_reverse, lr_learned, d),
                  {lr_call[t].upstream_name : t \in RegistersInFlight(d)},
                  IF RegistersInFlight(d) = {} THEN lr_latest[d] ELSE <<>>)

\* resolve, rename.rs 169-171: the name is in custom_reverse
ResolveCustom(t, d) ==
    /\ lr_call[t].pc = "idle"
    /\ d \in DOMAIN lr_renamer.custom_reverse
    /\ lr_ret' =
                     <<[ResolveCalled(d) EXCEPT
                           !.value = resolve(lr_renamer.custom_reverse, lr_learned, d)]>>
    /\ UNCHANGED <<lr_renamer, lr_learned, lr_writer, lr_call, lr_latest>>
    /\ UNCHANGED notLearned

\* resolve, rename.rs 169-172: not in custom_reverse, up to .read()
ResolveBegin(t, d) ==
    /\ lr_call[t].pc = "idle"
    /\ d \notin DOMAIN lr_renamer.custom_reverse
    /\ lr_call' = [lr_call EXCEPT ![t] =
                      [op |-> "resolve", upstream_name |-> <<>>, display_name |-> d,
                       pc |-> "read", before |-> ResolveCalled(d).before,
                       during |-> ResolveCalled(d).during,
                       settled |-> ResolveCalled(d).settled]]
    /\ UNCHANGED <<lr_renamer, lr_learned, lr_writer, lr_latest, lr_ret>>
    /\ UNCHANGED notLearned

\* resolve, rename.rs 172-175: .read().unwrap().get(display_name), clone or
\* pass through, return
ResolveRead(t) ==
    /\ lr_call[t].pc = "read"
    /\ lr_writer = {}
    /\ lr_ret' =
                     <<ResolveReturn(lr_call[t].display_name,
                                     resolve(lr_renamer.custom_reverse, lr_learned,
                                             lr_call[t].display_name),
                                     lr_call[t].before, lr_call[t].during,
                                     lr_call[t].settled)>>
    /\ lr_call' = [lr_call EXCEPT ![t] = NoRenamerCall]
    /\ UNCHANGED <<lr_renamer, lr_learned, lr_writer, lr_latest>>
    /\ UNCHANGED notLearned

LearnedNext ==
    \/ \E t \in RenameThreads, u \in LearnedUpstreamIds : RegisterSame(t, u)
    \/ \E t \in RenameThreads, u \in LearnedUpstreamIds : RegisterBegin(t, u)
    \/ \E t \in RenameThreads : RegisterLock(t)
    \/ \E t \in RenameThreads : RegisterInsert(t)
    \/ \E t \in RenameThreads, d \in LearnedDisplayNames : ResolveCustom(t, d)
    \/ \E t \in RenameThreads, d \in LearnedDisplayNames : ResolveBegin(t, d)
    \/ \E t \in RenameThreads : ResolveRead(t)

(***************************************************************************)
(* handle_streaming's loop body, messages.rs 241-266, for payloads that    *)
(* parse as a ChatCompletionChunk and payloads that do not.  A payload is  *)
(* known by what serde_json::from_str makes of it.                         *)
(***************************************************************************)
UnparsablePayload == [parsed |-> <<>>]
ChunkPayload(chunk) == [parsed |-> <<chunk>>]
\* the chunks with one tool call at most
SkipChunks ==
    {[choices |-> <<>>]} \cup
    {[choices |-> <<[delta |-> [content |-> c, tool_calls |-> t], finish_reason |-> f]>>] :
        c \in {"None", "Some"},
        t \in {<<>>} \cup {<<tc>> : tc \in DeltaToolCalls},
        f \in {"None"} \cup FinishReasons}
SkipPayloads == {UnparsablePayload} \cup {ChunkPayload(chunk) : chunk \in SkipChunks}

\* serde_json::from_str::<ChatCompletionChunk>(&event_data): Ok(c) as <<c>>,
\* Err(e) as <<>>
from_str(payload) == payload.parsed

\* (mutant: a payload that does not parse is translated as a chunk with an
\* empty delta)
TranslateAsEmptyDelta(st) ==
    translate_chunk([choices |-> <<[delta |-> [content |-> "None", tool_calls |-> <<>>],
                                    finish_reason |-> "None"]>>], st)

\* Err(e) => { debug!(...); continue; }
skip_unparsable(st) == st

\* what a chunk carries: text, tool call entries, a finish_reason
ChunkShape(chunk) ==
    IF chunk.choices = <<>>
    THEN [content |-> FALSE, tool_calls |-> 0, finish_reason |-> FALSE]
    ELSE [content |-> chunk.choices[1].delta.content # "None",
          tool_calls |-> Len(chunk.choices[1].delta.tool_calls),
          finish_reason |-> chunk.choices[1].finish_reason # "None"]
NoChunkShape == [content |-> FALSE, tool_calls |-> 0, finish_reason |-> FALSE]

\* The kind of the block started last and not stopped once the client has
\* read evs, open being the kind before.
RECURSIVE OpenKindAfter(_, _)
OpenKindAfter(open, evs) ==
    IF evs = <<>> THEN open
    ELSE LET e == Head(evs)
         IN OpenKindAfter(CASE e.type = "content_block_start" -> <<e.kind>>
                            [] e.type = "content_block_stop" -> <<>>
                            [] OTHER -> open,
                          Tail(evs))

SkipInit ==
    /\ sk_state = NewStreamState
    /\ sk_shadow = NewStreamState
    /\ sk_last = "none"
    /\ sk_skip = <<>>
    /\ sk_open = <<>>
    /\ sk_chunk = NoChunkShape

SkipIdle ==
    /\ sk_state = <<>>
    /\ sk_shadow = <<>>
    /\ sk_last = "idle"
    /\ sk_skip = <<>>
    /\ sk_open = <<>>
    /\ sk_chunk = <<>>

\* One payload that parses: translate_chunk, every event yielded.
SkipHandleChunk(payload) ==
    /\ sk_last # "idle"
    /\ from_str(payload) # <<>>
    /\ sk_state.content_block_index < MaxBlocks
    /\ sk_state' = translate_chunk(from_str(payload)[1], [sk_state EXCEPT !.events = <<>>])
    /\ sk_shadow' = translate_chunk(from_str(payload)[1], [sk_shadow EXCEPT !.events = <<>>])
    /\ sk_last' = "chunk"
    /\ sk_open' = OpenKindAfter(sk_open, sk_state'.events)
    /\ sk_chunk' = ChunkShape(from_str(payload)[1])
    /\ UNCHANGED sk_skip
    /\ UNCHANGED notSkip

\* One payload that does not parse: the loop continues with the next one.
\* The other run is not sent it.
SkipHandleUnparsable(payload) ==
    /\ sk_last # "idle"
    /\ from_str(payload) = <<>>
    /\ sk_state' = skip_unparsable([sk_state EXCEPT !.events = <<>>])
    /\ sk_skip' = <<[sk_state EXCEPT !.events = <<>>]>>
    /\ sk_last' = "unparsable"
    /\ sk_chunk' = NoChunkShape
    /\ UNCHANGED <<sk_shadow, sk_open>>
    /\ UNCHANGED notSkip

SkipNext ==
    \/ \E payload \in SkipPayloads : SkipHandleChunk(payload)
    \/ \E payload \in SkipPayloads : SkipHandleUnparsable(payload)

(***************************************************************************)
(* The evict task.  main calls spawn_refresh_loop once; the task it spawns *)
(* sleeps 300 seconds and calls evict_expired, for ever.  Request handlers *)
(* insert entries for the credentials they are given.  Time is kept as the *)
(* distance to the present moment, so that it can pass without end:        *)
(* expires_at is what is left until an entry expires, 0 once it has.       *)
(***************************************************************************)
EVICT_INTERVAL_SECS == 300
EvictTickSecs == {150}
EvictGhTokens == {"gh_a", "gh_b", "gh_c"}
EvictLifetimes == {150, 450}
EvictDefaultTokens == {<<>>, <<"gh_a">>}

\* spawn_refresh_loop, token.rs 31-34 and 63-68: what becomes of the evict
\* task.  With no default token the function returns before either spawn.
spawn_evict_task(default_token) == IF default_token = <<>> THEN "none" ELSE "sleep"

\* the entries d seconds later
Aged(cache, d) ==
    [g \in DOMAIN cache |->
        CachedToken(cache[g].copilot_token,
                    IF cache[g].expires_at > d THEN cache[g].expires_at - d ELSE 0)]

EvictInit ==
    /\ ev_default \in EvictDefaultTokens
    /\ ev_pc = "startup"
    /\ ev_task = "none"
    /\ ev_slept = 0
    /\ ev_entries = <<>>

EvictIdle ==
    /\ ev_default = <<>>
    /\ ev_pc = "idle"
    /\ ev_task = "none"
    /\ ev_slept = 0
    /\ ev_entries = <<>>

\* main: spawn_refresh_loop(Arc::clone(&state)), then the server listens
SpawnRefreshLoop ==
    /\ ev_pc = "startup"
    /\ ev_pc' = "serving"
    /\ ev_task' = spawn_evict_task(ev_default)
    /\ UNCHANGED <<ev_default, ev_slept, ev_entries>>
    /\ UNCHANGED notEvict

\* a request handler's get_copilot_token inserted the token it exchanged for
\* the credential g
EvictInsert(g, lifetime) ==
    /\ ev_pc = "serving"
    /\ ev_entries' = [h \in DOMAIN ev_entries \cup {g} |->
                         IF h = g THEN CachedToken("t", lifetime) ELSE ev_entries[h]]
    /\ UNCHANGED <<ev_default, ev_pc, ev_task, ev_slept>>
    /\ UNCHANGED notEvict

\* d seconds pass
EvictTick(d) ==
    /\ ev_pc = "serving"
    /\ ev_entries' = Aged(ev_entries, d)
    /\ ev_slept' = IF ev_task = "sleep" /\ ev_slept < EVICT_INTERVAL_SECS
                   THEN ev_slept + d ELSE ev_slept
    /\ UNCHANGED <<ev_default, ev_pc, ev_task>>
    /\ UNCHANGED notEvict

\* the evict task's sleep(300) is over: evict_expired().await, and the task
\* sleeps again
EvictTaskRuns ==
    /\ ev_task = "sleep"
    /\ ev_slept >= EVICT_INTERVAL_SECS
    /\ ev_entries' = retain(ev_entries, 0)
    /\ ev_slept' = 0
    /\ UNCHANGED <<ev_default, ev_pc, ev_task>>
    /\ UNCHANGED notEvict

EvictNext ==
    \/ SpawnRefreshLoop
    \/ \E g \in EvictGhTokens, lifetime \in EvictLifetimes : EvictInsert(g, lifetime)
    \/ \E d \in EvictTickSecs : EvictTick(d)
    \/ EvictTaskRuns

(***************************************************************************)
(* parse_thinking_blocks.  The offsets it slices at all come from find(),  *)
(* so they are character boundaries; positions are counted in characters.  *)
(***************************************************************************)
MaxParseSegs == 4

ParseSegments == { OPEN_TAG, CLOSE_TAG, <<"a">>, <<" ">> }

ParseInputs == {Flatten(ss) : ss \in SeqsUpTo(ParseSegments, MaxParseSegs)}

\* AssistantContentBlock::Text(TextBlock { text }) and
\* AssistantContentBlock::Thinking(ThinkingBlock { thinking }); the string is
\* kept in one field for both
TextBlock(text) == [type |-> "text", text |-> text]
ThinkingBlock(thinking) == [type |-> "thinking", text |-> thinking]

\* str::trim_end and str::trim
RECURSIVE trim_end(_)
trim_end(s) ==
    IF s # <<>> /\ s[Len(s)] \in {" ", "CR", "LF"}
    THEN trim_end(SubSeq(s, 1, Len(s) - 1)) ELSE s

trim(s) == trim_end(trim_start(s))

\* The while loop: what blocks, remaining and found_thinking are once it is
\* left, by find() giving None or by the break of the unclosed tag.
RECURSIVE ParseLoop(_, _, _)
ParseLoop(remaining, blocks, found_thinking) ==
    LET start_idx == Find(remaining, OPEN_TAG)
    IN IF start_idx = 0
       THEN [blocks |-> blocks, remaining |-> remaining, found_thinking |-> found_thinking]
       ELSE LET prefix == SubSeq(remaining, 1, start_idx - 1)
                with_prefix == IF trim(prefix) # <<>>
                               THEN Append(blocks, TextBlock(prefix))
                               ELSE blocks
                after_open == SubSeq(remaining, start_idx + Len(OPEN_TAG), Len(remaining))
                end_idx == Find(after_open, CLOSE_TAG)
            IN IF end_idx # 0
               THEN ParseLoop(SubSeq(after_open, end_idx + Len(CLOSE_TAG), Len(after_open)),
                              Append(with_prefix,
                                     ThinkingBlock(SubSeq(after_open, 1, end_idx - 1))),
                              TRUE)
               ELSE [blocks |-> Append(with_prefix, TextBlock(remaining)),
                     remaining |-> <<>>,
                     found_thinking |-> TRUE]

parse_thinking_blocks(text) ==
    LET left == ParseLoop(text, <<>>, FALSE)
        blocks == IF left.remaining # <<>>
                  THEN Append(left.blocks, TextBlock(left.remaining))
                  ELSE left.blocks
    IN IF ~left.found_thinking THEN <<TextBlock(text)>> ELSE blocks

ParseInit ==
    /\ pb_text \in ParseInputs
    /\ pb_pc = "ready"
    /\ pb_blocks = <<>>

ParseIdle ==
    /\ pb_text = <<>>
    /\ pb_pc = "idle"
    /\ pb_blocks = <<>>

ParseCall ==
    /\ pb_pc = "ready"
    /\ pb_blocks' = parse_thinking_blocks(pb_text)
    /\ pb_pc' = "parsed"
    /\ UNCHANGED pb_text
    /\ UNCHANGED notParse

ParseNext ==
    \/ ParseCall

(***************************************************************************)
(* The parts that stay idle under another part's specification.            *)
(***************************************************************************)
StreamIdle ==
    /\ message_start_sent = FALSE
    /\ content_block_index = 0
    /\ content_block_open = FALSE
    /\ tool_calls = <<>>
    /\ thinking_parser = "None"
    /\ hs_pc = "idle"
    /\ choice_seen = FALSE
    /\ last_events = <<>>
    /\ open_blocks = <<>>
    /\ last_start = NoIndex
    /\ first_event = "none"
    /\ n_message_start = 0
    /\ n_message_stop = 0

SseIdle ==
    /\ sse_stream = <<>>
    /\ sse_fed = 0
    /\ sse_buffer = <<>>
    /\ sse_data = <<>>

RenameIdle ==
    /\ auto_enabled = FALSE
    /\ custom_forward = <<>>
    /\ custom_reverse = <<>>
    /\ learned_reverse = <<>>
    /\ rn_last = <<>>
    /\ req_model = <<>>
    /\ resolved_model = <<>>
    /\ sent_model = <<>>

TokenIdle ==
    /\ now = 0
    /\ entries = <<>>
    /\ issued = 0
    /\ tc_pc = <<>>
    /\ tc_resp = <<>>
    /\ tc_ret = <<>>

(***************************************************************************)
(* Properties of the stream translator                                     *)
(***************************************************************************)
NonDecreasing(s) == \A k \in 1..(Len(s) - 1) : s[k] <= s[k + 1]

\* C1: at most one content block is open at any point of the event sequence:
\* no content_block_start is sent while a block started before it has not
\* received its content_block_stop.
C1_AtMostOneOpenBlock ==
    [][/\ \A k \in 1..Len(last_events') :
            last_events'[k].type = "content_block_start"
                => OpenAfter(open_blocks, SubSeq(last_events', 1, k - 1)) = <<>>
       /\ Len(open_blocks') <= 1]_vars

\* A second block is open, the first one started having been stopped.
C1_Witness ==
    /\ content_block_index >= 1
    /\ open_blocks = <<content_block_index>>
    /\ last_start = content_block_index

\* C2: once a chunk with a non-empty choices list has been translated, exactly
\* one message_start has been sent, and it was the first event of the stream.
C2_OneMessageStartFirst ==
    choice_seen => (n_message_start = 1 /\ first_event = "message_start")

\* Several chunks with choices were translated: blocks were opened and closed
\* and the message was stopped.
C2_Witness ==
    /\ choice_seen
    /\ content_block_index >= 1
    /\ n_message_stop >= 1
    /\ n_message_start = 1

\* C3: exactly one message_stop is sent per streaming response: never a second
\* one, and one by the time the upstream has closed.
C3_ExactlyOneMessageStop ==
    /\ n_message_stop <= 1
    /\ hs_pc = "closed" => n_message_stop = 1

\* C4: message_stop is the last event of the response: it ends the events of
\* the step that sends it, and no later step sends any event.
C4_MessageStopIsLast ==
    [][/\ n_message_stop >= 1 => last_events' = <<>>
       /\ \A k \in 1..(Len(last_events') - 1) :
            last_events'[k].type # "message_stop"]_vars

\* C5: every content_block_stop sent is preceded by a content_block_start with
\* the same index that has not been stopped yet.
C5_StopMatchesOpenStart ==
    [][\A k \in 1..Len(last_events') :
            last_events'[k].type = "content_block_stop"
                => LET open == OpenAfter(open_blocks, SubSeq(last_events', 1, k - 1))
                   IN \E j \in 1..Len(open) : open[j] = last_events'[k].index]_vars

\* A block was stopped because another kind of block followed it.
C5_Witness ==
    /\ \E k \in 1..Len(last_events) : last_events[k].type = "content_block_stop"
    /\ content_block_index >= 1
    /\ open_blocks # <<>>

\* C6: content_block_index never decreases, and the indexes of successive
\* content_block_start events are non-decreasing.
C6_IndexNonDecreasing ==
    [][/\ content_block_index' >= content_block_index
       /\ NonDecreasing(<<last_start>> \o StartIndexes(last_events'))]_vars

\* Three blocks have been started, the index having moved twice.
C6_Witness ==
    /\ content_block_index >= 2
    /\ last_start >= 2

\* C34: every content_block_delta sent carries the index of the block that is
\* open when it is sent: a delta is never sent for a block that has received
\* its content_block_stop, or while no block is open.
C34_DeltaToOpenBlock ==
    [][\A k \in 1..Len(last_events') :
            last_events'[k].type = "content_block_delta"
                => OpenAfter(open_blocks, SubSeq(last_events', 1, k - 1))
                       = <<last_events'[k].index>>]_vars

(***************************************************************************)
(* Properties of the thinking parser                                       *)
(***************************************************************************)
\* The events read back as text, ThinkingStart as "<thinking>" and
\* ThinkingEnd as "</thinking>".
Render(log) ==
    Flatten([k \in 1..Len(log) |->
                CASE log[k].kind = "ThinkingStart" -> OPEN_TAG
                  [] log[k].kind = "ThinkingEnd" -> CLOSE_TAG
                  [] OTHER -> log[k].text])

HasKind(log, kind) == \E k \in 1..Len(log) : log[k].kind = kind

\* The whole text pushed as one chunk, then finish(): the events, deltas joined.
WholePush(text) == ParserPush(<<>>, FALSE, text)
WholeEvents(text) ==
    Coalesce(<<>>, WholePush(text).events
                    \o ParserFinish(WholePush(text).buffer, WholePush(text).in_thinking))

\* On every run in which no push panics: the events read back as the text
\* pushed, and they are the events of the input arriving in one chunk.
RoundTripWhenFinished ==
    th_pc = "finished" => Render(th_out) = SubSeq(input, 1, pushed)

SplitAsWholeWhenFinished ==
    (th_pc = "finished" /\ pushed = Len(input) /\ ~WholePush(input).panicked)
        => th_out = WholeEvents(input)

\* C7: every sequence of pushes returns and can be followed by finish(), and
\* then the payloads of all events in order, with ThinkingStart read as
\* "<thinking>" and ThinkingEnd as "</thinking>", concatenate to exactly the
\* text that was pushed.
C7_RoundTrip ==
    /\ th_pc # "panicked"
    /\ th_pc = "finished" => Render(th_out) = SubSeq(input, 1, pushed)

\* C8: for an input that the parser takes in one chunk, however it is cut into
\* chunks inside a tag, every push returns and the events are those of the
\* input arriving in one chunk, deltas of a kind joined: no character of the
\* split tag is sent inside a TextDelta or ThinkingDelta, and the tag gives
\* ThinkingStart or ThinkingEnd between the same texts.
C8_SplitTagAsWhole ==
    (split_seen /\ ~WholePush(input).panicked)
        => /\ th_pc # "panicked"
           /\ (th_pc = "finished" /\ pushed = Len(input)) => th_out = WholeEvents(input)

\* How many events of a kind the log has before position k.
KindsBefore(log, k, kind) == Cardinality({j \in 1..(k - 1) : log[j].kind = kind})

\* Whether position k of the log lies inside a thinking segment: 1 when a
\* ThinkingStart before it has no ThinkingEnd yet, 0 when every one has.
Depth(log, k) == KindsBefore(log, k, "ThinkingStart") - KindsBefore(log, k, "ThinkingEnd")

\* The segments of a text: the first "<thinking>" opens one, the first
\* "</thinking>" after it closes it, and so on; inside a segment only
\* "</thinking>" is looked for.  Given as the events, empty texts left out.
RECURSIVE Segmented(_, _)
Segmented(text, inside) ==
    LET tag == IF inside THEN CLOSE_TAG ELSE OPEN_TAG
        at == Find(text, tag)
        Delta(t) == IF t = <<>> THEN <<>>
                    ELSE IF inside THEN <<ThinkingDelta(t)>> ELSE <<TextDelta(t)>>
    IN IF at = 0
       THEN Delta(text)
       ELSE Delta(SubSeq(text, 1, at - 1))
                \o <<IF inside THEN ThinkingEnd ELSE ThinkingStart>>
                \o Segmented(SubSeq(text, at + Len(tag), Len(text)), ~inside)

\* C36: in the events returned so far ThinkingStart and ThinkingEnd alternate,
\* ThinkingStart first; a ThinkingDelta comes only after a ThinkingStart that
\* has no ThinkingEnd yet, a TextDelta only outside such a segment; and once
\* the whole input was pushed and finish() called the events are those of
\* the input's segments, a "<thinking>" inside a segment being part of the
\* segment's ThinkingDelta.
C36_ThinkingEventsAlternate ==
    /\ \A k \in 1..Len(th_out) :
          /\ Depth(th_out, k) \in {0, 1}
          /\ th_out[k].kind \in {"ThinkingStart", "TextDelta"} => Depth(th_out, k) = 0
          /\ th_out[k].kind \in {"ThinkingEnd", "ThinkingDelta"} => Depth(th_out, k) = 1
    /\ (th_pc = "finished" /\ pushed = Len(input)) => th_out = Segmented(input, FALSE)

\* The input had a "<thinking>" inside a segment that was closed after it:
\* one ThinkingStart, the second tag inside the ThinkingDelta, one ThinkingEnd.
C36_Witness ==
    /\ th_pc = "finished"
    /\ pushed = Len(input)
    /\ split_seen
    /\ \E k \in 1..Len(th_out) :
          th_out[k].kind = "ThinkingDelta" /\ Find(th_out[k].text, OPEN_TAG) > 0
    /\ KindsBefore(th_out, Len(th_out) + 1, "ThinkingStart") = 1
    /\ KindsBefore(th_out, Len(th_out) + 1, "ThinkingEnd") = 1

\* C38: push returns normally for every sequence of chunks, multi-byte
\* characters included: no call slices the buffer inside a character.
C38_PushNeverPanics ==
    th_pc # "panicked"

(***************************************************************************)
(* Properties of the SSE framing                                           *)
(***************************************************************************)
\* C9: once a well-formed stream has been appended one byte at a time, with a
\* drain after each byte, the data strings extracted are those of the whole
\* stream appended at once and drained once.
C9_ByteAtATimeAsWhole ==
    sse_fed = Len(sse_stream) => sse_data = FeedWhole(sse_stream)

(***************************************************************************)
(* Properties of the token cache                                           *)
(***************************************************************************)
\* C10: a call of get_copilot_token that returns a token returns one whose
\* expires_at is more than 120 seconds after the time of the return, whether
\* the token came from the cache or from the exchange.
C10_ReturnedTokenValid ==
    \A c \in Callers :
        tc_ret[c].result = "Ok"
            => tc_ret[c].expires_at > tc_ret[c].at + EXPIRY_BUFFER_SECS

\* What a call does next is never held up by another call: the step of its
\* position can be taken whatever the other calls are doing.
CanStep(c) ==
    /\ tc_pc[c] = "idle" => \A g \in GhTokens : ENABLED CheckCache(c, g)
    /\ (tc_pc[c] = "exchange" /\ issued < MaxIssued)
          => \A lifetime \in Lifetimes : ENABLED Exchange(c, lifetime)
    /\ tc_pc[c] = "exchange" => ENABLED ExchangeFails(c)
    /\ tc_pc[c] = "insert" => \A g \in GhTokens : ENABLED InsertAndReturn(c, g)

\* A call that inserts returns the token of its own exchange, and the cache
\* then holds that token.
OwnTokenAtInsert(c) ==
    (tc_pc[c] = "insert" /\ tc_pc'[c] = "idle")
        => /\ tc_ret'[c].result = "Ok"
           /\ tc_ret'[c].copilot_token = tc_resp[c].copilot_token
           /\ \A g \in GhTokens : entries'[g] = tc_resp[c]

\* A call that missed the cache gets no token but from an exchange of its own.
MissedExchanges(c) ==
    tc_pc[c] = "exchange"
        => \/ tc_pc'[c] = "exchange" /\ tc_ret'[c] = tc_ret[c]
           \/ tc_pc'[c] = "insert" /\ issued' = issued + 1
                 /\ tc_resp'[c].copilot_token = issued'
           \/ tc_pc'[c] = "idle" /\ tc_ret'[c].result = "Err"

\* C18: two calls of get_copilot_token for one credential that both missed
\* the cache both exchange and both insert; neither is held up by the other,
\* each returns the token of its own exchange, and every insert replaces the
\* cache entry, so that the entry is the token of the insert made last.
C18_DuplicateExchangeLastWins ==
    /\ [](\A c \in Callers : CanStep(c))
    /\ [][\A c \in Callers : OwnTokenAtInsert(c) /\ MissedExchanges(c)]_vars
    /\ [](\A c \in Callers, d \in Callers :
            (c # d /\ tc_pc[c] = "insert" /\ tc_pc[d] = "insert")
                => tc_resp[c].copilot_token # tc_resp[d].copilot_token)

\* Both calls missed and exchanged, call 1 first; call 2 inserted first and
\* call 1 last: each has its own token and the cache holds that of call 1.
C18_Witness ==
    /\ \A c \in Callers : tc_pc[c] = "idle" /\ tc_ret[c].result = "Ok"
    /\ tc_ret[1].copilot_token = 1
    /\ tc_ret[2].copilot_token = 2
    /\ \A g \in GhTokens : entries[g].copilot_token = 1

(***************************************************************************)
(* Properties of the renamer and of the model sent upstream                *)
(***************************************************************************)
\* The display name of the model registered last, and what it resolves to.
LastDisplay == rename(custom_forward, auto_enabled, rn_last)
LastResolved == resolve(custom_reverse, learned_reverse, LastDisplay)

\* C11 (as stated): for every upstream ID u and every configuration, after
\* register(u, rename(u)) the call resolve(rename(u)) returns u.
C11_ResolveRenameAlways ==
    rn_last # <<>> => LastResolved = rn_last

\* C11 (amended): after register(u, rename(u)), resolve(rename(u)) returns u
\* provided the custom reverse map does not give rename(u) to another
\* upstream ID and, when rename(u) = u, no model is registered under the
\* display name u.
C11_ResolveRename ==
    (/\ rn_last # <<>>
     /\ LastDisplay \in DOMAIN custom_reverse => custom_reverse[LastDisplay] = rn_last
     /\ LastDisplay = rn_last => rn_last \notin DOMAIN learned_reverse)
        => LastResolved = rn_last

\* A renamed model was registered and resolves back through the learned map,
\* with a custom map and the auto rules both in force.
C11_Witness ==
    /\ rn_last # <<>>
    /\ LastDisplay # rn_last
    /\ auto_enabled
    /\ custom_forward # <<>>
    /\ rn_last \notin DOMAIN custom_forward
    /\ LastDisplay \in DOMAIN learned_reverse
    /\ LastResolved = rn_last

\* C12 (as stated): with learned_reverse["claude-sonnet-4-5"] =
\* "claude-sonnet-4.5", a request for "claude-sonnet-4-5" is sent upstream with
\* model "claude-sonnet-4".
C12_SentCollapsed ==
    (/\ req_model = claude_sonnet_4_5
     /\ claude_sonnet_4_5 \in DOMAIN learned_reverse
     /\ learned_reverse[claude_sonnet_4_5] = claude_sonnet_4dot5)
        => sent_model = claude_sonnet_4

\* C12 (amended): with learned_reverse["claude-sonnet-4-5"] =
\* "claude-sonnet-4.5" and no custom mapping for that name, a request for
\* "claude-sonnet-4-5" is resolved to "claude-sonnet-4.5" and sent upstream
\* with model "claude-sonnet-4.5": the family collapse runs on the resolved
\* name and leaves it alone, as it does not begin with "claude-sonnet-4-".
C12_SentResolved ==
    (/\ req_model = claude_sonnet_4_5
     /\ claude_sonnet_4_5 \in DOMAIN learned_reverse
     /\ learned_reverse[claude_sonnet_4_5] = claude_sonnet_4dot5
     /\ claude_sonnet_4_5 \notin DOMAIN custom_reverse)
        => /\ resolved_model = claude_sonnet_4dot5
           /\ sent_model = normalize_model_name(claude_sonnet_4dot5)
           /\ sent_model = claude_sonnet_4dot5

\* The request of the claim was made with the learned mapping in place.
C12_Witness ==
    /\ req_model = claude_sonnet_4_5
    /\ claude_sonnet_4_5 \in DOMAIN learned_reverse
    /\ learned_reverse[claude_sonnet_4_5] = claude_sonnet_4dot5
    /\ claude_sonnet_4_5 \notin DOMAIN custom_reverse
    /\ sent_model = claude_sonnet_4dot5

\* C19: resolve(display) is custom_reverse[display] when present, else
\* learned_reverse[display] when present, else display; a learned mapping for
\* a display name never overrides a custom reverse mapping for it.
C19_ResolvePrecedence ==
    req_model # <<>> =>
        resolved_model =
            IF req_model \in DOMAIN custom_reverse THEN custom_reverse[req_model]
            ELSE IF req_model \in DOMAIN learned_reverse THEN learned_reverse[req_model]
            ELSE req_model

\* A display name with a custom and a different learned mapping was resolved.
C19_Witness ==
    /\ req_model \in DOMAIN custom_reverse
    /\ req_model \in DOMAIN learned_reverse
    /\ learned_reverse[req_model] # custom_reverse[req_model]
    /\ resolved_model = custom_reverse[req_model]

(***************************************************************************)
(* Properties of the credential extraction and resolution                  *)
(***************************************************************************)
Extracted == rs_pc \in {"exchanging", "done"}

BeginsWith(value, p) ==
    /\ Len(value) >= Len(p)
    /\ \A k \in 1..Len(p) : value[k] = p[k]

HasGhPrefix(value) == \E p \in GH_TOKEN_PREFIXES : BeginsWith(value, p)

\* C14: whatever x-api-key, authorization and api-key hold, a value returned
\* by extract_gh_token begins with ghp_, gho_, ghu_ or github_pat_.
C14_ReturnedHasGhPrefix ==
    (Extracted /\ ex_ret # <<>>)
        => HasGhPrefix(ex_ret[1])

\* A header whose value, a sk- key behind "Bearer ", has no GitHub prefix was
\* probed and a value was returned all the same.
C14_Witness ==
    /\ Extracted
    /\ ex_ret # <<>>
    /\ headers["authorization"] = <<BEARER_UPPER \o <<"s", "k", "-", "a">>>>

\* The values probed, in the order x-api-key, authorization, api-key: a
\* header's value as it is, authorization's with "Bearer " or "bearer " removed.
BearerRemoved(value) ==
    IF BeginsWith(value, BEARER_UPPER) \/ BeginsWith(value, BEARER_LOWER)
    THEN <<SubSeq(value, Len(BEARER_UPPER) + 1, Len(value))>>
    ELSE <<>>

ProbedAll(h) ==
    <<h["x-api-key"],
      IF h["authorization"] = <<>> THEN <<>> ELSE BearerRemoved(h["authorization"][1]),
      h["api-key"]>>

IsText(value) == \A k \in 1..Len(value) : value[k] # "HI"

\* The same, a value with a byte outside visible ASCII counting as absent.
ProbedText(h) ==
    [k \in 1..3 |-> IF ProbedAll(h)[k] # <<>> /\ IsText(h[<<"x-api-key", "authorization", "api-key">>[k]][1])
                    THEN ProbedAll(h)[k] ELSE <<>>]

\* The first of the probed values that has a GitHub prefix, none without one.
FirstMatch(probed) ==
    LET hits == {k \in 1..Len(probed) : probed[k] # <<>> /\ HasGhPrefix(probed[k][1])}
    IN IF hits = {} THEN <<>> ELSE probed[CHOOSE k \in hits : \A j \in hits : k <= j]

\* C15 as stated: extract_gh_token returns the first of x-api-key,
\* authorization with its Bearer/bearer prefix removed, and api-key that has a
\* GitHub prefix, the values without one being skipped.
C15_FirstMatchAlways ==
    Extracted => ex_ret = FirstMatch(ProbedAll(headers))

\* C15 (amended): extract_gh_token returns the first of x-api-key,
\* authorization with its Bearer/bearer prefix removed, and api-key that is
\* visible ASCII and has a GitHub prefix; a value without one and a value
\* with a byte outside visible ASCII are skipped, the later headers probed.
C15_FirstTextMatch ==
    Extracted => ex_ret = FirstMatch(ProbedText(headers))

\* x-api-key holds a value without a GitHub prefix, authorization one behind
\* "bearer ", api-key another: the value of authorization was returned.
C15_Witness ==
    /\ Extracted
    /\ headers["x-api-key"] = <<<<"s", "k", "-", "a">>>>
    /\ headers["authorization"] = <<BEARER_LOWER \o <<"g", "h", "o", "_", "b">>>>
    /\ headers["api-key"] = <<<<"g", "h", "u", "_", "c">>>>
    /\ ex_ret = <<<<"g", "h", "o", "_", "b">>>>

\* C16: resolve_copilot_token passes on the credential of the headers, else
\* the configured default one; with neither it answers 403 with an
\* authentication_error body and no exchange is made; when the exchange
\* fails it answers 401 with an authentication_error body.
C16_ResolveCredential ==
    /\ rs_pc = "exchanging" =>
          /\ rs_gh_token # <<>>
          /\ rs_gh_token = (IF extract_gh_token(headers) # <<>>
                            THEN extract_gh_token(headers)
                            ELSE default_github_token)
    /\ rs_pc = "done" =>
          /\ (extract_gh_token(headers) = <<>> /\ default_github_token = <<>>)
                <=> (rs_ret.result = "Err" /\ rs_ret.status = 403)
          /\ rs_ret.status = 403 => (rs_exchanges = 0 /\ rs_gh_token = <<>>)
          /\ rs_ret.result = "Err" =>
                (rs_ret.error_type = "authentication_error" /\ rs_ret.status \in {401, 403})
          /\ rs_ret.status = 401 => rs_exchanges = 1
          /\ rs_ret.result = "Ok" => rs_gh_token # <<>>

\* The three outcomes happen: 403 without credential, 401 after a failed
\* exchange of the default credential.
C16_Witness ==
    /\ rs_pc = "done"
    /\ rs_ret.status = 401
    /\ extract_gh_token(headers) = <<>>
    /\ rs_gh_token = default_github_token
    /\ headers["x-api-key"] # <<>>

(***************************************************************************)
(* Properties of the refresh loop                                          *)
(***************************************************************************)
\* C17: the refresh task never ends: after each failed refresh call, however
\* many have failed in a row, it sleeps and then makes another attempt, and
\* that attempt starts when 30 seconds have passed since the failure.
C17_RetryAfterFailure ==
    /\ [](rf_pc \in {"initial_sleep", "sleep", "refresh"})
    /\ []((rf_last = "Err" /\ rf_pc = "sleep") => rf_sleep_secs = 30)
    /\ []((rf_last = "Err" /\ rf_pc = "refresh") => rf_slept = 30)
    /\ \A n \in 1..MaxFailures :
          (rf_pc = "sleep" /\ rf_last = "Err" /\ rf_failures = n)
              ~> (rf_pc = "refresh" /\ rf_last = "Err" /\ rf_failures = n)

\* After MaxFailures failed calls in a row the task is making another attempt.
C17_Witness ==
    /\ rf_pc = "refresh"
    /\ rf_last = "Err"
    /\ rf_failures = MaxFailures
    /\ rf_slept = 30

\* C30: the task makes its first refresh call when it has slept 600 seconds,
\* not before; after a call that returned Ok(refresh_in) it sleeps
\* max(refresh_in - 60, 0) seconds and then calls again: for refresh_in < 60
\* the sleep is 0 seconds, never a negative or a wrapped number.
C30_SleepBeforeRefresh ==
    /\ rf_pc = "initial_sleep" => rf_sleep_secs = 600 /\ rf_slept <= 600
    /\ (rf_pc = "refresh" /\ rf_last = "none") => rf_slept = 600
    /\ (rf_last = "Ok" /\ rf_pc \in {"sleep", "refresh"}) =>
          LET refresh_in == rf_entry[1]
              wanted == IF refresh_in - 60 > 0 THEN refresh_in - 60 ELSE 0
          IN /\ rf_sleep_secs = wanted
             /\ rf_sleep_secs >= 0 /\ rf_sleep_secs <= refresh_in
             /\ rf_slept <= wanted
             /\ rf_pc = "refresh" => rf_slept = wanted

\* A refresh returned refresh_in = 30: the next call is made with no sleep.
C30_Witness ==
    /\ rf_pc = "refresh"
    /\ rf_last = "Ok"
    /\ rf_entry = <<30>>
    /\ rf_sleep_secs = 0
    /\ rf_slept = 0

(***************************************************************************)
(* Properties of the response translator                                   *)
(***************************************************************************)
\* The table of stop reasons
StopReasonTable(finish_reason) ==
    IF finish_reason = <<"length">> THEN "max_tokens"
    ELSE IF finish_reason = <<"tool_calls">> THEN "tool_use"
    ELSE "end_turn"

OneChoice == rp_pc = "translated" /\ Len(rp_resp.choices) = 1

\* C20: the stop_reason of a translated response follows the table stop ->
\* end_turn, length -> max_tokens, tool_calls -> tool_use, content_filter ->
\* end_turn, anything else -> end_turn, and a response whose finish_reason is
\* missing gets end_turn; the stream translator's map_stop_reason follows the
\* same table.
C20_StopReasonTable ==
    /\ OneChoice =>
          rp_out.stop_reason = <<StopReasonTable(rp_resp.choices[1].finish_reason)>>
    /\ \A reason \in ResponseFinishReasons :
          reason # <<>> => map_stop_reason(reason[1]) = StopReasonTable(reason)

\* The table holds for every finish_reason that is present, in both
\* translators.
StopReasonTableWhenPresent ==
    /\ (OneChoice /\ rp_resp.choices[1].finish_reason # <<>>) =>
          rp_out.stop_reason = <<StopReasonTable(rp_resp.choices[1].finish_reason)>>
    /\ \A reason \in ResponseFinishReasons :
          reason # <<>> => map_stop_reason(reason[1]) = StopReasonTable(reason)

\* A response whose only choice has no finish_reason was translated.
C20_MissingFinishReason ==
    /\ OneChoice
    /\ rp_resp.choices[1].finish_reason = <<>>
    /\ rp_out.stop_reason = <<>>

\* Whether choice number i (from 0) has a text to show, and its tool calls.
HasText(choice) == choice.content \notin {<<>>, <<"">>}

CallsOf(choice) == IF choice.tool_calls = <<>> THEN <<>> ELSE choice.tool_calls[1]

\* The content blocks expected of the choices numbered below n: the text of
\* each choice that has one, in the order of the choices, then the tool
\* calls of each choice, in the order of the choices and of the calls.
RECURSIVE TextsBelow(_, _)
TextsBelow(choices, n) ==
    IF n = 0 THEN <<>>
    ELSE TextsBelow(choices, n - 1)
            \o (IF HasText(choices[n]) THEN <<[type |-> "text", from |-> n - 1]>> ELSE <<>>)

RECURSIVE ToolsBelow(_, _)
ToolsBelow(choices, n) ==
    IF n = 0 THEN <<>>
    ELSE ToolsBelow(choices, n - 1)
            \o [k \in 1..Len(CallsOf(choices[n])) |->
                    [type |-> "tool_use", from |-> n - 1, id |-> CallsOf(choices[n])[k]]]

TextBeforeTools(content) ==
    \A j \in 1..Len(content), k \in 1..Len(content) :
        (content[j].type = "text" /\ content[k].type = "tool_use") => j < k

\* C21 as stated: the content blocks are those of choices[0] alone, nothing
\* of a further choice appears, and every text block is before every
\* tool_use block.
C21_FirstChoiceOnly ==
    rp_pc = "translated" =>
        /\ rp_out.content = TextsBelow(rp_resp.choices, Min(1, Len(rp_resp.choices)))
                                \o ToolsBelow(rp_resp.choices, Min(1, Len(rp_resp.choices)))
        /\ TextBeforeTools(rp_out.content)

\* C21 (amended): the content blocks are the texts of all the choices, in the
\* order of the choices, followed by the tool calls of all the choices, in
\* the order of the choices; every text block is before every tool_use block.
C21_AllChoicesTextFirst ==
    rp_pc = "translated" =>
        /\ rp_out.content = TextsBelow(rp_resp.choices, Len(rp_resp.choices))
                                \o ToolsBelow(rp_resp.choices, Len(rp_resp.choices))
        /\ TextBeforeTools(rp_out.content)

\* Two choices, the first with a tool call and the second with a text: the
\* text of the second is in the result, before the tool call of the first.
C21_Witness ==
    /\ rp_pc = "translated"
    /\ Len(rp_resp.choices) = 2
    /\ ~HasText(rp_resp.choices[1]) /\ CallsOf(rp_resp.choices[1]) # <<>>
    /\ HasText(rp_resp.choices[2]) /\ CallsOf(rp_resp.choices[2]) = <<>>
    /\ Len(rp_out.content) = 2
    /\ rp_out.content[1] = [type |-> "text", from |-> 1]
    /\ rp_out.content[2].type = "tool_use"

(***************************************************************************)
(* Properties of the read loop                                             *)
(***************************************************************************)
\* C22: once "[DONE]" has been read, no payload of the upstream is handed to
\* translate_chunk any more; only the flush of the parser runs afterwards.
C22_NothingAfterDone ==
    rd_after_done = <<>>

\* Within the turn of the outer loop that reads "[DONE]", nothing that
\* follows it in the buffer is translated.
NothingAfterDoneInTurn ==
    [][(~rd_done /\ rd_done') => rd_after_done' = <<>>]_vars

\* "[DONE]" was read in one network chunk and a payload that followed it was
\* translated when the next network chunk arrived.
C22_TranslatedAfterDone ==
    /\ rd_done
    /\ rd_after_done # <<>>

(***************************************************************************)
(* Properties of the stream translator with thinking emulation             *)
(***************************************************************************)
\* Every delta of the log is inside a started and not yet stopped block of
\* its kind, a block starts only when none is open and a stop closes the
\* open block; open is the kind of the block open before the log, "none"
\* for none, index its index.
RECURSIVE WellRouted(_, _, _)
WellRouted(log, open, index) ==
    IF log = <<>> THEN TRUE
    ELSE LET e == Head(log)
         IN CASE e.type = "content_block_start" ->
                    open = "none" /\ WellRouted(Tail(log), e.kind, e.index)
              [] e.type = "content_block_stop" ->
                    open # "none" /\ e.index = index /\ WellRouted(Tail(log), "none", index)
              [] OTHER ->
                    /\ e.index = index
                    /\ (e.kind = "thinking_delta" => open = "thinking")
                    /\ (e.kind = "text_delta" => open = "text")
                    /\ WellRouted(Tail(log), open, index)

\* The log read back as text: the start of a thinking block as "<thinking>",
\* its stop as "</thinking>", a delta as its text.
RenderBlocks(log) ==
    Flatten([k \in 1..Len(log) |->
                CASE log[k].type = "content_block_start" /\ log[k].kind = "thinking" -> OPEN_TAG
                  [] log[k].type = "content_block_stop" /\ log[k].kind = "thinking" -> CLOSE_TAG
                  [] OTHER -> log[k].text])

RECURSIVE OfTurn(_, _)
OfTurn(out, turn) ==
    IF out = <<>> THEN <<>>
    ELSE IF Head(out).turn = turn
         THEN <<Head(out).message>> \o OfTurn(Tail(out), turn)
         ELSE OfTurn(Tail(out), turn)

\* C13: for every user message in block form, one tool message per
\* tool_result block, in block order, comes strictly before the single user
\* message built from the other blocks of the turn (none when there is no
\* other block); the messages of the turns follow each other in the order of
\* the turns, and the system message, when there is one, comes first.
C13_ToolMessagesFirst ==
    rq_pc = "translated" =>
        /\ \A k \in 1..(Len(rq_out) - 1) : rq_out[k].turn <= rq_out[k + 1].turn
        /\ rq_system <=> (rq_out # <<>> /\ rq_out[1].message.role = "system")
        /\ \A k \in 2..Len(rq_out) : rq_out[k].message.role # "system"
        /\ \A turn \in 1..Len(rq_messages) :
              (rq_messages[turn].role = "user" /\ rq_messages[turn].content.form = "Blocks")
                => LET blocks == rq_messages[turn].content.blocks
                       results == FilterBlocks(blocks, {"tool_result"})
                       others == FilterBlocks(blocks, {"text", "image"})
                       msgs == OfTurn(rq_out, turn)
                       n == Len(results)
                   IN /\ Len(msgs) = n + (IF others = <<>> THEN 0 ELSE 1)
                      /\ \A k \in 1..n :
                            /\ msgs[k].role = "tool"
                            /\ msgs[k].tool_call_id = <<results[k].id>>
                      /\ others # <<>> =>
                            /\ msgs[n + 1].role = "user"
                            /\ IF msgs[n + 1].content[1] = "Parts"
                               THEN msgs[n + 1].content[2] = others
                               ELSE msgs[n + 1].content[2] = BlockIds(others)

\* A request with a system prompt whose second message is a user message
\* with a text block before a tool_result block was translated.
C13_Witness ==
    /\ rq_pc = "translated"
    /\ rq_system
    /\ Len(rq_messages) = 2
    /\ rq_messages[2].role = "user"
    /\ rq_messages[2].content.form = "Blocks"
    /\ Len(rq_messages[2].content.blocks) = 2
    /\ rq_messages[2].content.blocks[1].type = "text"
    /\ rq_messages[2].content.blocks[2].type = "tool_result"
    /\ rq_out[Len(rq_out)].message.role = "user"
    /\ rq_out[Len(rq_out) - 1].message.role = "tool"

(***************************************************************************)
(* Properties of the model list cache                                      *)
(***************************************************************************)
Display(u) == rename(md_renamer.custom_forward, md_renamer.auto_enabled, u)

\* The places of a fetched list whose id is shown under the display name d
\* and differs from it
RenamedTo(data, d) == {k \in 1..Len(data) : Display(data[k]) = d /\ data[k] # d}

\* The learned map after every id of the list was registered on top of the
\* map before: a display name stands for the last id renamed to it.
Registered(before, data, after) ==
    /\ DOMAIN after =
          DOMAIN before \cup {Display(data[k]) : k \in {j \in 1..Len(data) : Display(data[j]) # data[j]}}
    /\ \A d \in DOMAIN after :
          IF RenamedTo(data, d) = {}
          THEN d \in DOMAIN before /\ after[d] = before[d]
          ELSE \E k \in RenamedTo(data, d) :
                  /\ \A j \in RenamedTo(data, d) : j <= k
                  /\ after[d] = data[k]

\* What get_models has done when it has answered, fresh telling whether the
\* list it found in the cache counted as valid.
ModelsAnswered(fresh) ==
    md_pc = "done" =>
        LET served == md_ret.status = STATUS_OK /\ md_calls = 0
        IN /\ fresh <=> served
           /\ (~fresh /\ md_req.gh_token = <<>>) =>
                 md_ret.status = SERVICE_UNAVAILABLE /\ md_calls = 0
           /\ (~fresh /\ md_req.gh_token # <<>>) => md_calls >= 1
           /\ md_req.fetched # <<>> =>
                 LET data == md_req.fetched[1]
                     shown == [k \in 1..Len(data) |-> Display(data[k])]
                 IN /\ ~fresh
                    /\ md_ret.status = STATUS_OK /\ md_ret.data = shown
                    /\ models = <<CachedModels(shown, md_req.written_at)>>
           /\ (~fresh /\ md_req.gh_token # <<>> /\ md_req.fetched = <<>>) =>
                 md_ret.status \in {UNAUTHORIZED, BAD_GATEWAY}

\* What a step of get_models does to the cache and to the renamer: the list
\* served from the cache is the cached one; the cache and the learned names
\* change only when a fetched list arrives, every id of which is registered.
ModelsStep ==
    /\ (md_pc' = "done" /\ md_pc # "fetch" /\ md_ret'.status = STATUS_OK) =>
          md_ret'.data = models[1].response
    /\ (md_pc = "fetch" /\ md_req'.fetched # <<>>) =>
          Registered(md_renamer.learned_reverse, md_req'.fetched[1],
                     md_renamer'.learned_reverse)
    /\ ~(md_pc = "fetch" /\ md_req'.fetched # <<>>) =>
          models' = models /\ md_renamer' = md_renamer

\* C24 as stated: get_models serves the cached list without an upstream call
\* iff a list is cached with now - cached_at < TTL; otherwise it fetches,
\* renames and registers every id and caches the list with cached_at = now,
\* or answers 503 without touching the cache when no credential is at hand.
C24_FreshIfYoungerThanTtl ==
    /\ [](ModelsAnswered(/\ md_req.seen_cached_at # <<>>
                         /\ md_req.at - md_req.seen_cached_at[1] < MODELS_CACHE_TTL))
    /\ [][ModelsStep]_vars

\* C24, amended: the cached list counts as valid iff 0 <= now - cached_at < TTL;
\* a list cached at a time later than the clock now reads is fetched again.
\* A failed exchange or fetch answers 401 or 502 and leaves the cache as it is.
C24_FreshWithinTtl ==
    /\ [](ModelsAnswered(/\ md_req.seen_cached_at # <<>>
                         /\ md_req.at >= md_req.seen_cached_at[1]
                         /\ md_req.at - md_req.seen_cached_at[1] < MODELS_CACHE_TTL))
    /\ [][ModelsStep]_vars

\* A list as old as the TTL was found, a new one fetched some time later, an
\* id of it renamed, and the cache replaced.
C24_Witness ==
    /\ md_pc = "done"
    /\ md_req.seen_cached_at # <<>>
    /\ md_req.at - md_req.seen_cached_at[1] = MODELS_CACHE_TTL
    /\ md_req.fetched # <<>>
    /\ md_req.written_at > md_req.at
    /\ \E k \in 1..Len(md_req.fetched[1]) : md_ret.data[k] # md_req.fetched[1][k]


(***************************************************************************)
(* Properties of the dot replacement                                       *)
(***************************************************************************)
AsciiDigits == {"0", "1", "2", "3", "4", "5", "6", "7", "8", "9"}

\* The dot at place i of s has an ASCII digit right before and right after it
Flanked(s, i) ==
    /\ s[i] = "."
    /\ i - 1 \in DOMAIN s /\ s[i - 1] \in AsciiDigits
    /\ i + 1 \in DOMAIN s /\ s[i + 1] \in AsciiDigits

\* out is s with exactly the flanked dots turned into dashes
FlankedDotsDashed(s, out) ==
    /\ Len(out) = Len(s)
    /\ \A i \in 1..Len(s) : out[i] = IF Flanked(s, i) THEN "-" ELSE s[i]

Count(s, c) == Cardinality({i \in 1..Len(s) : s[i] = c})

\* The places of rest where a segment begins that is no version segment
\* (Len(rest) + 1 for the empty segment after a trailing dash)
VariantStarts(rest) ==
    {p \in 1..(Len(rest) + 1) :
        /\ p = 1 \/ rest[p - 1] = "-"
        /\ p = Len(rest) + 1 \/ rest[p] \notin AsciiDigits}

\* What auto_rename gives for "claude-" followed by rest
AutoRenamed(rest, renamed) ==
    IF VariantStarts(rest) = {}
    THEN renamed = <<>>
    ELSE LET p == CHOOSE q \in VariantStarts(rest) : \A r \in VariantStarts(rest) : q <= r
             shown == IF renamed = <<>> THEN rest
                      ELSE SubSeq(renamed[1], Len(CLAUDE_PREFIX) + 1, Len(renamed[1]))
         IN /\ renamed # <<>> => SubSeq(renamed[1], 1, Len(CLAUDE_PREFIX)) = CLAUDE_PREFIX
            /\ IF p = 1
               THEN FlankedDotsDashed(rest, shown)
               ELSE LET version == SubSeq(rest, 1, p - 2)
                        variant == SubSeq(rest, p, Len(rest))
                    IN /\ renamed # <<>>
                       /\ Len(shown) = Len(rest)
                       /\ SubSeq(shown, 1, Len(variant)) = variant
                       /\ shown[Len(variant) + 1] = "-"
                       /\ FlankedDotsDashed(version,
                                            SubSeq(shown, Len(variant) + 2, Len(shown)))

DotsDone == "replace_version_dots" \in dt_done => FlankedDotsDashed(dt_name, dt_dashed)

\* C25 as stated: replace_version_dots, and so the auto rename, turns a dot
\* into a dash exactly when an ASCII digit stands right before and right
\* after it in the original string, and keeps every other character.
C25_AutoRenameEveryFlankedDot ==
    /\ DotsDone
    /\ "auto_rename" \in dt_done =>
          LET shown == IF dt_renamed = <<>> THEN dt_name ELSE dt_renamed[1]
              flanked == Cardinality({i \in 1..Len(dt_name) : Flanked(dt_name, i)})
          IN /\ \A c \in NameChars \ {".", "-"} : Count(shown, c) = Count(dt_name, c)
             /\ Len(shown) = Len(dt_name)
             /\ strip_prefix(dt_name, CLAUDE_PREFIX) # <<>> =>
                   Count(shown, ".") = Count(dt_name, ".") - flanked

\* C25, amended: replace_version_dots does so; auto_rename does so for the
\* whole remainder when it begins with a variant segment, for the leading run
\* of version segments alone when it begins with one (the variant segments
\* are moved to the front as they are), and changes nothing when every
\* segment is a version segment or the name has no "claude-" prefix.
C25_DotsOfVersionRun ==
    /\ DotsDone
    /\ "auto_rename" \in dt_done =>
          IF strip_prefix(dt_name, CLAUDE_PREFIX) = <<>>
          THEN dt_renamed = <<>>
          ELSE AutoRenamed(strip_prefix(dt_name, CLAUDE_PREFIX)[1], dt_renamed)

\* Both were applied to "claude-4.4-v": the dot is dashed by both, and
\* auto_rename moves the variant to the front.
C25_Witness ==
    /\ dt_done = {"replace_version_dots", "auto_rename"}
    /\ dt_name = CLAUDE_PREFIX \o <<"4", ".", "4", "-", "v">>
    /\ dt_dashed = CLAUDE_PREFIX \o <<"4", "-", "4", "-", "v">>
    /\ dt_renamed = <<CLAUDE_PREFIX \o <<"v", "-", "4", "-", "4">>>>


(***************************************************************************)
(* Properties of a streamed tool call                                      *)
(***************************************************************************)
IntroducedCall == tl_stream[1].choices[1].delta.tool_calls[1]

ArgumentsOf(n) == tl_stream[n + 1].choices[1].delta.tool_calls[1].arguments[1]

\* The events the client is to get for the stream, in order
ExpectedToolEvents ==
    <<[type |-> "message_start", index |-> NoIndex, kind |-> "message", payload |-> <<>>],
      [type |-> "content_block_start", index |-> 0, kind |-> "tool_use",
       payload |-> <<IntroducedCall.id[1], IntroducedCall.name[1], "{}">>]>>
    \o [n \in 1..(Len(tl_stream) - 2) |->
            [type |-> "content_block_delta", index |-> 0, kind |-> "input_json_delta",
             payload |-> <<ArgumentsOf(n)>>]]
    \o <<[type |-> "content_block_stop", index |-> 0, kind |-> "stop", payload |-> <<>>],
         [type |-> "message_delta", index |-> NoIndex, kind |-> "tool_use", payload |-> <<>>],
         [type |-> "message_stop", index |-> NoIndex, kind |-> "stop", payload |-> <<>>]>>

\* C26: a chunk introducing tool call 0 with id and name, then chunks with
\* arguments only, then finish_reason tool_calls, give exactly message_start,
\* content_block_start(tool_use, id, name, {}), one input_json_delta per
\* arguments chunk with its arguments as they came and in their order,
\* content_block_stop, message_delta(tool_use), message_stop: after each chunk
\* the client has the events up to that chunk's, and nothing else at the end.
C26_ToolCallStream ==
    tl_pc \in {"reading", "closed"} =>
        tl_sent = SubSeq(ExpectedToolEvents, 1,
                         IF tl_read = 0 THEN 0
                         ELSE IF tl_read = Len(tl_stream) THEN Len(ExpectedToolEvents)
                         ELSE tl_read + 1)

\* Scenario D of the specification has been streamed to its end.
C26_Witness ==
    /\ tl_pc = "closed"
    /\ Len(tl_stream) = 4
    /\ IntroducedCall.id = <<"call_1">>
    /\ ArgumentsOf(1) = "{\"a\":" /\ ArgumentsOf(2) = "1}"
    /\ Len(tl_sent) = 7
    /\ tl_sent[3].payload = <<"{\"a\":">> /\ tl_sent[4].payload = <<"1}">>

(***************************************************************************)
(* Properties of the token cache with several credentials.  A step is the  *)
(* step of caller c when it changes the place of c's call.                 *)
(***************************************************************************)
\* The credential has an entry that expires more than 120 seconds from now
HasValidEntry(g) ==
    g \in DOMAIN cc_entries /\ cc_entries[g].expires_at > cc_now + EXPIRY_BUFFER_SECS

\* The step leaves the entry of every credential but g as it is
OtherEntriesUnchanged(g) ==
    \A h \in CacheGhTokens \ {g} :
        /\ h \in DOMAIN cc_entries' <=> h \in DOMAIN cc_entries
        /\ h \in DOMAIN cc_entries => cc_entries'[h] = cc_entries[h]

\* The step puts the answer of c's exchange under c's credential, and there only
InsertsOwnAnswer(c) ==
    LET g == cc_call[c].gh_token
    IN /\ g \in DOMAIN cc_entries'
       /\ cc_entries'[g] = [copilot_token |-> cc_call[c].resp.token,
                            expires_at |-> cc_call[c].resp.expires_at]
       /\ OtherEntriesUnchanged(g)

Begins(c, op) ==
    /\ cc_call[c].pc = "idle"
    /\ cc_call'[c].op = op
    /\ cc_call'[c] # cc_call[c] \/ cc_ret'[c] # cc_ret[c]

Moves(c, op, from, to) ==
    cc_call[c].op = op /\ cc_call[c].pc = from /\ cc_call'[c].pc = to

\* The steps of a call of get_copilot_token
GetCopilotTokenSteps(c) ==
    LET g == cc_call'[c].gh_token
    IN /\ Begins(c, "get_copilot_token") =>
             /\ cc_entries' = cc_entries /\ cc_issued' = cc_issued
             /\ cc_call'[c].exchanges = 0
             /\ IF HasValidEntry(g)
                THEN /\ cc_call'[c].pc = "idle"
                     /\ cc_ret'[c] = [result |-> "Ok", refresh_in |-> 0,
                                      copilot_token |-> cc_entries[g].copilot_token]
                ELSE /\ cc_call'[c].pc = "exchange"
                     /\ cc_ret'[c].result = "none"
       /\ Moves(c, "get_copilot_token", "exchange", "insert") =>
             /\ cc_entries' = cc_entries
             /\ cc_call'[c].exchanges = 1 /\ cc_issued' = cc_issued + 1
       /\ Moves(c, "get_copilot_token", "exchange", "idle") =>
             /\ cc_entries' = cc_entries
             /\ cc_call'[c].exchanges = 1
             /\ cc_ret'[c].result = "Err"
       /\ Moves(c, "get_copilot_token", "insert", "idle") =>
             /\ InsertsOwnAnswer(c)
             /\ cc_call'[c].exchanges = 1 /\ cc_issued' = cc_issued
             /\ cc_ret'[c] = [result |-> "Ok", refresh_in |-> 0,
                              copilot_token |-> cc_call[c].resp.token]

\* C27: get_copilot_token makes no exchange and returns the cached token when
\* the credential has an entry with expires_at > now + 120; otherwise it makes
\* exactly one exchange and inserts the answer under that credential only; a
\* failed exchange returns the error and leaves every entry as it is.
C27_GetCopilotTokenFrame ==
    /\ [][\A c \in CacheCallers : GetCopilotTokenSteps(c)]_vars
    /\ [](\A c \in CacheCallers :
            cc_call[c].op = "get_copilot_token" =>
                /\ cc_call[c].pc = "exchange" => cc_call[c].exchanges = 0
                /\ cc_call[c].pc = "insert" => cc_call[c].exchanges = 1
                /\ (cc_call[c].pc = "idle" /\ cc_call[c].exchanges = 0) =>
                      cc_ret[c].result = "Ok")

\* Caller 1 got its token for gh_a by an exchange and inserted it, and the
\* entry of gh_b is that of caller 2's exchange, made before and still there.
C27_Witness ==
    /\ cc_call[1] = [CacheCall("get_copilot_token", "gh_a", "idle") EXCEPT !.exchanges = 1]
    /\ cc_ret[1] = CacheReturn("Ok", 2, 0)
    /\ cc_call[2].gh_token = "gh_b" /\ cc_call[2].pc = "idle"
    /\ DOMAIN cc_entries = {"gh_a", "gh_b"}
    /\ cc_entries["gh_a"].copilot_token = 2
    /\ cc_entries["gh_b"].copilot_token = 1

\* C28: evict_expired removes exactly the entries whose expires_at is at most
\* the time the call has read, and leaves every other entry as it is; an
\* entry that is valid when the entries are removed is never among them.
C28_EvictExpiredFrame ==
    [][\A c \in CacheCallers :
          /\ Begins(c, "evict_expired") => cc_entries' = cc_entries
          /\ Moves(c, "evict_expired", "retain", "idle") =>
                /\ DOMAIN cc_entries' =
                      DOMAIN cc_entries \ {g \in DOMAIN cc_entries :
                                              cc_entries[g].expires_at <= cc_call[c].now}
                /\ \A g \in DOMAIN cc_entries' : cc_entries'[g] = cc_entries[g]
                /\ \A g \in CacheGhTokens : HasValidEntry(g) => g \in DOMAIN cc_entries'
                /\ cc_call'[c].evicted =
                      Cardinality({g \in DOMAIN cc_entries :
                                      cc_entries[g].expires_at <= cc_call[c].now})]_vars

\* An evict_expired has removed one entry and left the other, which expires
\* later but is not valid any more.
C28_Witness ==
    \E c \in CacheCallers :
        /\ cc_call[c].op = "evict_expired" /\ cc_call[c].pc = "idle"
        /\ cc_call[c].evicted = 1
        /\ cc_ret[c].result = "Unit"
        /\ \E g \in DOMAIN cc_entries :
              cc_entries[g].expires_at > cc_now /\ ~HasValidEntry(g)

\* The steps of a call of refresh
RefreshSteps(c) ==
    /\ Begins(c, "refresh") =>
          /\ cc_call'[c].pc = "exchange" /\ cc_call'[c].exchanges = 0
          /\ cc_entries' = cc_entries
    /\ Moves(c, "refresh", "exchange", "insert") =>
          /\ cc_entries' = cc_entries
          /\ cc_call'[c].exchanges = 1 /\ cc_issued' = cc_issued + 1
    /\ Moves(c, "refresh", "exchange", "idle") =>
          /\ cc_entries' = cc_entries
          /\ cc_call'[c].exchanges = 1
          /\ cc_ret'[c].result = "Err"
    /\ Moves(c, "refresh", "insert", "idle") =>
          /\ InsertsOwnAnswer(c)
          /\ cc_call'[c].exchanges = 1
          /\ cc_ret'[c] = [result |-> "Ok", copilot_token |-> 0,
                           refresh_in |-> cc_call[c].resp.refresh_in]

\* C29: refresh makes an exchange on every call, also when a valid entry is
\* cached; on success it replaces the entry of its credential and returns
\* the refresh_in of the upstream; on failure it returns the error and leaves
\* the entries as they are.
C29_RefreshAlwaysExchanges ==
    /\ [][\A c \in CacheCallers : RefreshSteps(c)]_vars
    /\ [](\A c \in CacheCallers :
            (cc_call[c].op = "refresh" /\ cc_call[c].pc = "idle") =>
                /\ cc_call[c].exchanges = 1
                /\ cc_ret[c].result \in {"Ok", "Err"})

\* A refresh has made its exchange while the cache holds a valid entry of its
\* credential, with another token: the insert is what comes next.
C29_Witness ==
    \E c \in CacheCallers :
        /\ cc_call[c].op = "refresh" /\ cc_call[c].pc = "insert"
        /\ HasValidEntry(cc_call[c].gh_token)
        /\ cc_entries[cc_call[c].gh_token].copilot_token # cc_call[c].resp.token
        /\ cc_call[c].resp.refresh_in \in CacheRefreshIns

(***************************************************************************)
(* Properties of the locks                                                 *)
(***************************************************************************)
Holds(t, l) == t \in lk_readers[l] \/ t \in lk_writer[l]

\* a task that awaits a lock gets it as soon as the tasks inside a guard's
\* scope have left it
CanAcquire(t) ==
    LET pc == lk_call[t].pc
    IN /\ (pc \in AwaitsRead /\ lk_writer[LockOf(pc)] = {}) => ENABLED ReadAcquire(t)
       /\ (pc \in AwaitsWrite /\ lk_writer[LockOf(pc)] = {} /\ lk_readers[LockOf(pc)] = {})
             => ENABLED WriteAcquire(t)

\* C31: a task that awaits an upstream call (the token exchange or the model
\* fetch) holds neither lock, in read or in write; a lock is held only by a
\* task between its acquisition and the end of the guard's scope, where it
\* awaits nothing, so that a task waiting for a lock is never kept out by a
\* task whose upstream call is in flight.
C31_NoLockAcrossUpstreamCall ==
    /\ \A t \in LockTasks, l \in LockNames :
          lk_call[t].pc \in InFlight => ~Holds(t, l)
    /\ \A t \in LockTasks, l \in LockNames :
          /\ t \in lk_readers[l] => lk_call[t].pc \in ReadSection /\ LockOf(lk_call[t].pc) = l
          /\ t \in lk_writer[l] => lk_call[t].pc \in WriteSection /\ LockOf(lk_call[t].pc) = l
    /\ \A t \in LockTasks, u \in LockTasks :
          (lk_call[t].pc \in InFlight /\ lk_call[u].pc \in AwaitsRead \cup AwaitsWrite
             /\ \A v \in LockTasks \ {t} : \A l \in LockNames : ~Holds(v, l))
          => CanAcquire(u)

\* One task's exchange is in flight after a miss of the fast path, in
\* get_models, while another task is inside the read guard of the same lock.
C31_Witness ==
    \E t \in LockTasks, u \in LockTasks :
        /\ lk_call[t].op = "get_models" /\ lk_call[t].pc = "fetch_copilot_token"
        /\ lk_call[u].pc = "entries.fast_path" /\ u \in lk_readers["entries"]

(***************************************************************************)
(* Properties of the renamer used by several threads                       *)
(***************************************************************************)
ResolveReturns == {lr_ret[k] : k \in DOMAIN lr_ret}

\* a resolve returns what it would have returned when it was called, or the
\* upstream name of a register call that ran while it ran
ResolveSeesBeforeOrDuring ==
    \A r \in ResolveReturns : r.value = r.before \/ r.value \in r.during

\* C32 as stated: a resolve(d) returns its value of before or the u of a
\* concurrent register(u, d); a resolve(d) called after register(u, d) has
\* returned, with no register for d since and no custom_reverse entry for d,
\* returns u, whatever u is.
C32_ResolveAfterAnyRegister ==
    /\ ResolveSeesBeforeOrDuring
    /\ \A r \in ResolveReturns :
          (r.settled # <<>> /\ r.display_name \notin DOMAIN lr_renamer.custom_reverse)
          => r.value = r.settled[1]

\* C32: a resolve(d) returns its value of before or the u of a concurrent
\* register(u, d), never anything else; a resolve(d) called after
\* register(u, d) with u # d has returned, with no register for d since and
\* no custom_reverse entry for d, returns u.  (register(d, d) records nothing.)
C32_ResolveAfterRegister ==
    /\ ResolveSeesBeforeOrDuring
    /\ \A r \in ResolveReturns :
          (r.settled # <<>> /\ r.settled[1] # r.display_name
             /\ r.display_name \notin DOMAIN lr_renamer.custom_reverse)
          => r.value = r.settled[1]

\* A resolve returned the name of a register call that ran while it ran, not
\* the value it would have returned when it was called.
C32_Witness ==
    \E r \in ResolveReturns : r.value # r.before /\ r.value \in r.during

(***************************************************************************)
(* Properties of the payloads that do not parse                            *)
(***************************************************************************)
WithoutEvents(st) == [st EXCEPT !.events = <<>>]

\* C33: after a payload that does not parse no event has been yielded and the
\* StreamState is what it was; at every moment the StreamState equals that of
\* a run that was never sent the payloads that do not parse, and every chunk
\* yields the events it yields in that run.
C33_UnparsableSkipped ==
    /\ sk_last = "unparsable" => sk_state = sk_skip[1]
    /\ sk_last # "idle" => WithoutEvents(sk_state) = WithoutEvents(sk_shadow)
    /\ sk_last = "chunk" => sk_state.events = sk_shadow.events

\* A payload that did not parse arrived while a tool block was open, and the
\* chunk after it closed the block and opened another.
C33_Witness ==
    /\ sk_last = "chunk"
    /\ sk_skip # <<>>
    /\ is_tool_block_open(sk_skip[1])
    /\ sk_state.events # <<>>
    /\ sk_state.content_block_index = sk_skip[1].content_block_index + 1

\* what translate_chunk pushes for a text delta when a tool_use block is
\* open at index i: the stop of that block, the start of a text block at
\* i + 1, the delta at i + 1
TextAfterTool(i) ==
    <<ContentBlockStop(i), ContentBlockStart(i + 1, "text"),
      ContentBlockDelta(i + 1, "text_delta")>>

TextChunkSteps ==
    (sk_last' = "chunk" /\ sk_chunk'.content) =>
        LET evs == sk_state'.events
            i == sk_state.content_block_index
        IN /\ sk_open = <<"tool_use">> =>
                 /\ Len(evs) >= 3 /\ SubSeq(evs, 1, 3) = TextAfterTool(i)
                 /\ sk_chunk'.tool_calls = 0 /\ ~sk_chunk'.finish_reason =>
                        /\ evs = TextAfterTool(i)
                        /\ sk_state'.content_block_index = i + 1
                        /\ sk_open' = <<"text">>
           /\ sk_open = <<"text">> =>
                 /\ evs # <<>> /\ evs[1] = ContentBlockDelta(i, "text_delta")
                 /\ sk_chunk'.tool_calls = 0 /\ ~sk_chunk'.finish_reason =>
                        /\ evs = <<ContentBlockDelta(i, "text_delta")>>
                        /\ sk_state'.content_block_index = i
                        /\ sk_open' = <<"text">>

\* C35: a chunk with a text delta that arrives while a tool_use block is open
\* at index i yields content_block_stop(i), content_block_start(text, i + 1)
\* and the text_delta at i + 1, and the index becomes i + 1; one that arrives
\* while a text block is open at index i yields the text_delta at i first,
\* and nothing else when the chunk carries only text.
C35_TextDeltaSteps == [][TextChunkSteps]_vars

\* The same, for the steps taken when the open block is not a text block
\* whose index is that of a tool call.
TextDeltaStepsUnlessIndexShared ==
    [][~(sk_open = <<"text">> /\ is_tool_block_open(sk_state)) => TextChunkSteps]_vars

(***************************************************************************)
(* Properties of the evict task                                            *)
(***************************************************************************)
HasExpired(g) == g \in DOMAIN ev_entries /\ ev_entries[g].expires_at = 0

ExpiredEvictedWithDefaultToken ==
    \A g \in EvictGhTokens : (ev_default # <<>> /\ HasExpired(g)) ~> ~HasExpired(g)

(***************************************************************************)
(* Properties of parse_thinking_blocks                                     *)
(***************************************************************************)
RECURSIVE BlockTexts(_)
BlockTexts(blocks) ==
    IF blocks = <<>> THEN <<>> ELSE Head(blocks).text \o BlockTexts(Tail(blocks))

\* the text has an opening tag and no closing tag at all
OpenedNeverClosed(text) == Find(text, OPEN_TAG) > 0 /\ Find(text, CLOSE_TAG) = 0

\* C39: for a text whose opening tag is never closed the returned blocks'
\* texts, put together, are the input, no character lost or repeated; and
\* when nothing precedes the tag the result is one Text block, the input.
C39_UnclosedTagKeepsInput ==
    (pb_pc = "parsed" /\ OpenedNeverClosed(pb_text))
        => /\ BlockTexts(pb_blocks) = pb_text
           /\ Find(pb_text, OPEN_TAG) = 1 => pb_blocks = <<TextBlock(pb_text)>>

\* What does hold: with nothing but whitespace before the unclosed tag the
\* result is one Text block, the input; and in every case the last block is
\* a Text block holding the whole input.
UnclosedTagLastBlockIsInput ==
    (pb_pc = "parsed" /\ OpenedNeverClosed(pb_text))
        => /\ pb_blocks # <<>>
           /\ pb_blocks[Len(pb_blocks)] = TextBlock(pb_text)
           /\ trim(SubSeq(pb_text, 1, Find(pb_text, OPEN_TAG) - 1)) = <<>>
                 => pb_blocks = <<TextBlock(pb_text)>>

\* C40: for a text with a "<thinking>" tag no returned Text block is made of
\* whitespace only.
C40_NoWhitespaceOnlyText ==
    (pb_pc = "parsed" /\ Find(pb_text, OPEN_TAG) > 0)
        => \A k \in 1..Len(pb_blocks) :
              pb_blocks[k].type = "text" => trim(pb_blocks[k].text) # <<>>

\* What does hold: only the last block can be whitespace-only text.
NoWhitespaceOnlyTextBeforeLast ==
    (pb_pc = "parsed" /\ Find(pb_text, OPEN_TAG) > 0)
        => \A k \in 1..(Len(pb_blocks) - 1) :
              pb_blocks[k].type = "text" => trim(pb_blocks[k].text) # <<>>

InitThinking == ThinkInit /\ StreamIdle /\ SseIdle /\ TokenIdle /\ RenameIdle /\ RequestIdle
        /\ AuthIdle /\ RefreshIdle /\ ResponseIdle /\ ReadIdle
        /\ ThinkStreamIdle /\ ModelsIdle /\ DotsIdle /\ ToolStreamIdle
        /\ CacheIdle /\ LocksIdle /\ LearnedIdle /\ SkipIdle /\ EvictIdle
        /\ ParseIdle
SpecThinking == InitThinking /\ [][ThinkNext]_vars

InitStream == StreamInit /\ ThinkIdle /\ SseIdle /\ TokenIdle /\ RenameIdle /\ RequestIdle
        /\ AuthIdle /\ RefreshIdle /\ ResponseIdle /\ ReadIdle
        /\ ThinkStreamIdle /\ ModelsIdle /\ DotsIdle /\ ToolStreamIdle
        /\ CacheIdle /\ LocksIdle /\ LearnedIdle /\ SkipIdle /\ EvictIdle
        /\ ParseIdle
SpecStream == InitStream /\ [][StreamNext]_vars

InitSse == SseInit /\ ThinkIdle /\ StreamIdle /\ TokenIdle /\ RenameIdle /\ RequestIdle
        /\ AuthIdle /\ RefreshIdle /\ ResponseIdle /\ ReadIdle
        /\ ThinkStreamIdle /\ ModelsIdle /\ DotsIdle /\ ToolStreamIdle
        /\ CacheIdle /\ LocksIdle /\ LearnedIdle /\ SkipIdle /\ EvictIdle
        /\ ParseIdle
SpecSse == InitSse /\ [][SseNext]_vars

InitToken == TokenInit /\ ThinkIdle /\ StreamIdle /\ SseIdle /\ RenameIdle /\ RequestIdle
        /\ AuthIdle /\ RefreshIdle /\ ResponseIdle /\ ReadIdle
        /\ ThinkStreamIdle /\ ModelsIdle /\ DotsIdle /\ ToolStreamIdle
        /\ CacheIdle /\ LocksIdle /\ LearnedIdle /\ SkipIdle /\ EvictIdle
        /\ ParseIdle
SpecToken == InitToken /\ [][TokenNext]_vars

InitRename == RenameInit /\ ThinkIdle /\ StreamIdle /\ SseIdle /\ TokenIdle /\ RequestIdle
        /\ AuthIdle /\ RefreshIdle /\ ResponseIdle /\ ReadIdle
        /\ ThinkStreamIdle /\ ModelsIdle /\ DotsIdle /\ ToolStreamIdle
        /\ CacheIdle /\ LocksIdle /\ LearnedIdle /\ SkipIdle /\ EvictIdle
        /\ ParseIdle
SpecRename == InitRename /\ [][RenameNext]_vars

InitRequest ==
    RequestInit /\ ThinkIdle /\ StreamIdle /\ SseIdle /\ TokenIdle /\ RenameIdle
        /\ AuthIdle /\ RefreshIdle /\ ResponseIdle /\ ReadIdle
        /\ ThinkStreamIdle /\ ModelsIdle /\ DotsIdle /\ ToolStreamIdle
        /\ CacheIdle /\ LocksIdle /\ LearnedIdle /\ SkipIdle /\ EvictIdle
        /\ ParseIdle
SpecRequest == InitRequest /\ [][RequestNext]_vars

InitAuth ==
    AuthInit /\ ThinkIdle /\ StreamIdle /\ SseIdle /\ TokenIdle /\ RenameIdle
        /\ RequestIdle /\ RefreshIdle /\ ResponseIdle /\ ReadIdle
        /\ ThinkStreamIdle /\ ModelsIdle /\ DotsIdle /\ ToolStreamIdle
        /\ CacheIdle /\ LocksIdle /\ LearnedIdle /\ SkipIdle /\ EvictIdle
        /\ ParseIdle
SpecAuth == InitAuth /\ [][AuthNext]_vars

InitRefresh ==
    RefreshInit /\ ThinkIdle /\ StreamIdle /\ SseIdle /\ TokenIdle /\ RenameIdle
        /\ RequestIdle /\ AuthIdle /\ ResponseIdle /\ ReadIdle
        /\ ThinkStreamIdle /\ ModelsIdle /\ DotsIdle /\ ToolStreamIdle
        /\ CacheIdle /\ LocksIdle /\ LearnedIdle /\ SkipIdle /\ EvictIdle
        /\ ParseIdle
SpecRefresh == InitRefresh /\ [][RefreshNext]_vars

\* The timer of a sleep fires: time passes and the task is resumed.  Nothing
\* is assumed of the refresh call, which may never return.
SpecRefreshFair ==
    SpecRefresh /\ WF_vars(SleepTick) /\ WF_vars(StartRefresh)

InitResponse ==
    ResponseInit /\ ThinkIdle /\ StreamIdle /\ SseIdle /\ TokenIdle /\ RenameIdle
        /\ RequestIdle /\ AuthIdle /\ RefreshIdle /\ ReadIdle
        /\ ThinkStreamIdle /\ ModelsIdle /\ DotsIdle /\ ToolStreamIdle
        /\ CacheIdle /\ LocksIdle /\ LearnedIdle /\ SkipIdle /\ EvictIdle
        /\ ParseIdle
SpecResponse == InitResponse /\ [][ResponseNext]_vars

InitRead ==
    ReadInit /\ ThinkIdle /\ StreamIdle /\ SseIdle /\ TokenIdle /\ RenameIdle
        /\ RequestIdle /\ AuthIdle /\ RefreshIdle /\ ResponseIdle
        /\ ThinkStreamIdle /\ ModelsIdle /\ DotsIdle /\ ToolStreamIdle
        /\ CacheIdle /\ LocksIdle /\ LearnedIdle /\ SkipIdle /\ EvictIdle
        /\ ParseIdle
SpecRead == InitRead /\ [][ReadNext]_vars

InitThinkStream ==
    ThinkStreamInit /\ StreamIdle /\ SseIdle /\ TokenIdle /\ RenameIdle
        /\ RequestIdle /\ AuthIdle /\ RefreshIdle /\ ResponseIdle /\ ReadIdle
        /\ ModelsIdle /\ DotsIdle /\ ToolStreamIdle /\ CacheIdle /\ LocksIdle
        /\ LearnedIdle /\ SkipIdle /\ EvictIdle /\ ParseIdle
SpecThinkStream == InitThinkStream /\ [][ThinkStreamNext]_vars

InitModels ==
    /\ ModelsInit /\ ThinkIdle /\ StreamIdle /\ SseIdle /\ TokenIdle /\ RenameIdle
    /\ RequestIdle /\ AuthIdle /\ RefreshIdle /\ ResponseIdle /\ ReadIdle
    /\ ThinkStreamIdle /\ DotsIdle /\ ToolStreamIdle /\ CacheIdle /\ LocksIdle
        /\ LearnedIdle /\ SkipIdle /\ EvictIdle /\ ParseIdle
SpecModels == InitModels /\ [][ModelsNext]_vars

InitDots ==
    /\ DotsInit /\ ThinkIdle /\ StreamIdle /\ SseIdle /\ TokenIdle /\ RenameIdle
    /\ RequestIdle /\ AuthIdle /\ RefreshIdle /\ ResponseIdle /\ ReadIdle
    /\ ThinkStreamIdle /\ ModelsIdle /\ ToolStreamIdle /\ CacheIdle
        /\ LocksIdle /\ LearnedIdle /\ SkipIdle /\ EvictIdle /\ ParseIdle
SpecDots == InitDots /\ [][DotsNext]_vars

InitToolStream ==
    /\ ToolStreamInit /\ ThinkIdle /\ StreamIdle /\ SseIdle /\ TokenIdle /\ RenameIdle
    /\ RequestIdle /\ AuthIdle /\ RefreshIdle /\ ResponseIdle /\ ReadIdle
    /\ ThinkStreamIdle /\ ModelsIdle /\ DotsIdle /\ CacheIdle /\ LocksIdle
        /\ LearnedIdle /\ SkipIdle /\ EvictIdle /\ ParseIdle
SpecToolStream == InitToolStream /\ [][ToolStreamNext]_vars

InitCache ==
    /\ CacheInit /\ ThinkIdle /\ StreamIdle /\ SseIdle /\ TokenIdle /\ RenameIdle
    /\ RequestIdle /\ AuthIdle /\ RefreshIdle /\ ResponseIdle /\ ReadIdle
    /\ ThinkStreamIdle /\ ModelsIdle /\ DotsIdle /\ ToolStreamIdle
        /\ LocksIdle /\ LearnedIdle /\ SkipIdle /\ EvictIdle /\ ParseIdle
SpecCache == InitCache /\ [][CacheNext]_vars

InitLocks ==
    /\ LocksInit /\ ThinkIdle /\ StreamIdle /\ SseIdle /\ TokenIdle /\ RenameIdle
    /\ RequestIdle /\ AuthIdle /\ RefreshIdle /\ ResponseIdle /\ ReadIdle
    /\ ThinkStreamIdle /\ ModelsIdle /\ DotsIdle /\ ToolStreamIdle /\ CacheIdle
        /\ LearnedIdle /\ SkipIdle /\ EvictIdle /\ ParseIdle
SpecLocks == InitLocks /\ [][LocksNext]_vars

InitLearned ==
    /\ LearnedInit /\ ThinkIdle /\ StreamIdle /\ SseIdle /\ TokenIdle /\ RenameIdle
    /\ RequestIdle /\ AuthIdle /\ RefreshIdle /\ ResponseIdle /\ ReadIdle
    /\ ThinkStreamIdle /\ ModelsIdle /\ DotsIdle /\ ToolStreamIdle /\ CacheIdle
    /\ LocksIdle /\ SkipIdle /\ EvictIdle /\ ParseIdle
SpecLearned == InitLearned /\ [][LearnedNext]_vars

InitSkip ==
    /\ SkipInit /\ ThinkIdle /\ StreamIdle /\ SseIdle /\ TokenIdle /\ RenameIdle
    /\ RequestIdle /\ AuthIdle /\ RefreshIdle /\ ResponseIdle /\ ReadIdle
    /\ ThinkStreamIdle /\ ModelsIdle /\ DotsIdle /\ ToolStreamIdle /\ CacheIdle
    /\ LocksIdle /\ LearnedIdle /\ EvictIdle /\ ParseIdle
SpecSkip == InitSkip /\ [][SkipNext]_vars

InitEvict ==
    /\ EvictInit /\ ThinkIdle /\ StreamIdle /\ SseIdle /\ TokenIdle /\ RenameIdle
    /\ RequestIdle /\ AuthIdle /\ RefreshIdle /\ ResponseIdle /\ ReadIdle
    /\ ThinkStreamIdle /\ ModelsIdle /\ DotsIdle /\ ToolStreamIdle /\ CacheIdle
    /\ LocksIdle /\ LearnedIdle /\ SkipIdle /\ ParseIdle
SpecEvict == InitEvict /\ [][EvictNext]_vars

\* main goes on to serve, time passes, and the timer of the evict task's
\* sleep fires and the task is resumed.  Requests are not assumed to come.
SpecEvictFair ==
    SpecEvict /\ WF_vars(SpawnRefreshLoop) /\ WF_vars(\E d \in EvictTickSecs : EvictTick(d))
        /\ WF_vars(EvictTaskRuns)

InitParse ==
    /\ ParseInit /\ ThinkIdle /\ StreamIdle /\ SseIdle /\ TokenIdle /\ RenameIdle
    /\ RequestIdle /\ AuthIdle /\ RefreshIdle /\ ResponseIdle /\ ReadIdle
    /\ ThinkStreamIdle /\ ModelsIdle /\ DotsIdle /\ ToolStreamIdle /\ CacheIdle
    /\ LocksIdle /\ LearnedIdle /\ SkipIdle /\ EvictIdle
SpecParse == InitParse /\ [][ParseNext]_vars

=============================================================================
